---- MODULE Spec2Model ----
(***************************************************************************)
(* Model of the evolutionary engine of genetic-jazz: the melody genome,    *)
(* the fitness evaluator, the pairing strategies and the generational loop *)
(* of GeneticJazzMelodyGenerator.generate.                                 *)
(*                                                                         *)
(* Python lists are 0-based, TLA+ sequences 1-based: slot i of the code is *)
(* element i+1 of a sequence here.  Operators that return an index return  *)
(* the Python (0-based) index.                                             *)
(*                                                                         *)
(* Real numbers are kept exact as scaled integers:                         *)
(*   - a value of random.random() is u / RAND_MOD with u in 0..RAND_MOD-1; *)
(*   - mutation_rate is given in percent;                                  *)
(*   - a weight is given in hundredths, a heuristic value in units of      *)
(*     1/SCORE_ONE, hence a fitness in units of 1/(100 * SCORE_ONE).       *)
(***************************************************************************)
EXTENDS Integers, Sequences, FiniteSets, TLC

VARIABLES params, run, twin, call

vars == <<params, run, twin, call>>

(***************************************************************************)
(* Bounds of the model                                                     *)
(***************************************************************************)
MaxPop == 3
MaxGen == 2
MaxSeed == 2
MaxChords == 9
MaxParents == 3
MaxDistinct == 8
MaxEvalSeed == 12

(***************************************************************************)
(* core/constants.py                                                       *)
(***************************************************************************)
REST == -1
MIN_PITCH == 60
MAX_PITCH == 84
NOTES_PER_BAR == 8
NUM_BARS == 8
TOTAL_NOTES == NOTES_PER_BAR * NUM_BARS

Min(S) == CHOOSE x \in S : \A y \in S : x <= y
Max(S) == CHOOSE x \in S : \A y \in S : x >= y
MaxOf(a, b) == IF a >= b THEN a ELSE b

(***************************************************************************)
(* The random module.  A raw draw is an integer u in 0..RAND_MOD-1 and     *)
(* stands for the float u / RAND_MOD in [0, 1).  The engine takes its raw  *)
(* draws from one shared stream (the module-level generator of `random`),  *)
(* here a full-period linear congruential generator; the operations take   *)
(* the draws they consume, in order, from a sequence d.                    *)
(***************************************************************************)
RAND_MOD == 1024

RAND_MUL == 205

RAND_INC == 113

NextRaw(x) == (x * RAND_MUL + RAND_INC) % RAND_MOD

\* <<a, c>> such that i applications of NextRaw take x to (a * x + c) % RAND_MOD
RECURSIVE NextRawPow(_)
NextRawPow(i) ==
    IF i = 0 THEN <<1, 0>>
    ELSE IF i % 2 = 0
    THEN LET h == NextRawPow(i \div 2)
         IN <<(h[1] * h[1]) % RAND_MOD, (h[1] * h[2] + h[2]) % RAND_MOD>>
    ELSE LET h == NextRawPow(i - 1)
         IN <<(RAND_MUL * h[1]) % RAND_MOD, (RAND_MUL * h[2] + RAND_INC) % RAND_MOD>>

\* the next n raw draws of the generator in state x
Stream(x, n) ==
    [i \in 1..n |-> LET f == NextRawPow(i) IN (f[1] * x + f[2]) % RAND_MOD]

\* the generator state after `used` draws of d == Stream(x, n) were consumed
Advance(x, d, used) == IF used = 0 THEN x ELSE d[used]

\* random.random() < num/den
RandomLess(u, num, den) == u * den < num * RAND_MOD

\* random.randint(a, b)
RandInt(a, b, u) == a + ((u * (b - a + 1)) \div RAND_MOD)

\* random.randrange(n)
RandRange(n, u) == (u * n) \div RAND_MOD

\* random.choice(seq)
Choice(seq, u) == seq[1 + RandRange(Len(seq), u)]

(***************************************************************************)
(* core/chordfactory.py, core/chorddata.py, progressions/presets.py        *)
(***************************************************************************)
NOTE_TO_PC ==
    [n \in {"C", "C#", "Db", "D", "D#", "Eb", "E", "Fb", "E#", "F", "F#",
            "Gb", "G", "G#", "Ab", "A", "A#", "Bb", "B", "Cb"} |->
        CASE n = "C" -> 0
          [] n \in {"C#", "Db"} -> 1
          [] n = "D" -> 2
          [] n \in {"D#", "Eb"} -> 3
          [] n \in {"E", "Fb"} -> 4
          [] n \in {"E#", "F"} -> 5
          [] n \in {"F#", "Gb"} -> 6
          [] n = "G" -> 7
          [] n \in {"G#", "Ab"} -> 8
          [] n = "A" -> 9
          [] n \in {"A#", "Bb"} -> 10
          [] n \in {"B", "Cb"} -> 11]

CHORD_TYPES ==
    [t \in {"maj7", "min7", "dom7", "min7b5", "dim7", "minMaj7", "maj7#5",
            "7sus4", "dom7#11"} |->
        CASE t = "maj7"    -> <<(<<0, 4, 7, 11>>), (<<2, 6, 9>>), (<<5>>)>>
          [] t = "min7"    -> <<(<<0, 3, 7, 10>>), (<<2, 5, 9>>), (<<6>>)>>
          [] t = "dom7"    -> <<(<<0, 4, 7, 10>>), (<<2, 9>>), (<<5>>)>>
          [] t = "min7b5"  -> <<(<<0, 3, 6, 10>>), (<<2, 5, 8>>), (<<>>)>>
          [] t = "dim7"    -> <<(<<0, 3, 6, 9>>), (<<2, 5, 8>>), (<<>>)>>
          [] t = "minMaj7" -> <<(<<0, 3, 7, 11>>), (<<2, 5, 9>>), (<<6>>)>>
          [] t = "maj7#5"  -> <<(<<0, 4, 8, 11>>), (<<2, 6>>), (<<5>>)>>
          [] t = "7sus4"   -> <<(<<0, 5, 7, 10>>), (<<2, 9>>), (<<4>>)>>
          [] t = "dom7#11" -> <<(<<0, 4, 7, 10>>), (<<2, 6, 9>>), (<<5>>)>>]

\* ChordFactory.create(root_name, chord_type)
ChordFactoryCreate(root_name, chord_type) ==
    [root        |-> NOTE_TO_PC[root_name],
     chord_tones |-> CHORD_TYPES[chord_type][1],
     tensions    |-> CHORD_TYPES[chord_type][2],
     avoid_notes |-> CHORD_TYPES[chord_type][3]]

\* ChordProgression with the length test weakened to "too few chords"
ChordProgressionAtLeast(chords) ==
    IF Len(chords) < NUM_BARS
    THEN [error |-> "ValueError", chords |-> <<>>]
    ELSE [error |-> "none", chords |-> chords]

\* ChordProgression(chords): __post_init__ raises ValueError unless there are
\* exactly NUM_BARS chords
ChordProgression(chords) ==
    IF Len(chords) # NUM_BARS
    THEN [error |-> "ValueError", chords |-> <<>>]
    ELSE [error |-> "none", chords |-> chords]

get_ii_v_i_progression ==
    LET Dm7 == ChordFactoryCreate("D", "min7")
        G7 == ChordFactoryCreate("G", "dom7")
        Cmaj7 == ChordFactoryCreate("C", "maj7")
    IN ChordProgression(<<Dm7, G7, Cmaj7, Cmaj7, Dm7, G7, Cmaj7, Cmaj7>>)

get_minor_blues_progression ==
    LET Cm7 == ChordFactoryCreate("C", "min7")
        Fm7 == ChordFactoryCreate("F", "min7")
    IN ChordProgression(<<Cm7, Cm7, Cm7, Cm7, Fm7, Fm7, Cm7, Cm7>>)

Progressions == {get_ii_v_i_progression.chords, get_minor_blues_progression.chords}

(***************************************************************************)
(* genetic/fitness.py: JazzFitnessEvaluator                                *)
(***************************************************************************)
SCORE_ONE == 1920

\* the pitches of the slots that are not rests, in slot order
Sounded(pitches) == SelectSeq(pitches, LAMBDA p : p # REST)

SeqRange(s) == {s[i] : i \in 1..Len(s)}

\* NoteDensityScore that stays at 1 above the density 0.75
NoteDensityScorePlateau(pitches) ==
    LET note_count == Len(Sounded(pitches))
    IN IF note_count * 10 < 3 * TOTAL_NOTES THEN note_count * 50
       ELSE IF note_count * 2 <= TOTAL_NOTES THEN note_count * 75 - 480
       ELSE SCORE_ONE

\* _note_density, in units of 1/SCORE_ONE.  density = note_count/TOTAL_NOTES;
\* density < 0.3 is note_count * 10 < 3 * TOTAL_NOTES, and so on.
\*   density / 0.3 * 0.5                  = note_count * 50 / 1920
\*   0.5 + (density - 0.3) / 0.2 * 0.5    = (note_count * 75 - 480) / 1920
\*   max(0.3, 1.0 - (density - 0.75) * 3) = max(576, 6240 - note_count * 90) / 1920
NoteDensityScore(pitches) ==
    LET note_count == Len(Sounded(pitches))
    IN IF note_count * 10 < 3 * TOTAL_NOTES THEN note_count * 50
       ELSE IF note_count * 2 <= TOTAL_NOTES THEN note_count * 75 - 480
       ELSE IF note_count * 4 <= 3 * TOTAL_NOTES THEN SCORE_ONE
       ELSE MaxOf(576, 6240 - note_count * 90)

\* _range_fitness, in units of 1/SCORE_ONE
\*   0.5 + range_size / 16                     = (960 + 120 * range_size) / 1920
\*   max(0.3, 1.0 - (range_size - 18) / 24)    = max(576, 1920 - 80 * (range_size - 18)) / 1920
RangeFitnessScore(pitches) ==
    LET sounded == SeqRange(Sounded(pitches))
    IN IF sounded = {} THEN 0
       ELSE LET range_size == Max(sounded) - Min(sounded)
            IN IF range_size < 8 THEN 960 + 120 * range_size
               ELSE IF range_size <= 18 THEN SCORE_ONE
               ELSE MaxOf(576, SCORE_ONE - 80 * (range_size - 18))

\* getattr(self, f"_{func}")(genome) in units of 1/SCORE_ONE, for the keys of
\* the weight mappings the engine runs with
Heuristic(func, pitches, chords) ==
    CASE func = "note_density" -> NoteDensityScore(pitches)
      [] func = "range_fitness" -> RangeFitnessScore(pitches)

\* the keys of FITNESS_WEIGHTS_CONFIG, in its order
HEURISTIC_KEYS ==
    <<"chord_tone_emphasis", "tension_usage", "avoid_wrong_notes",
      "call_and_response", "melodic_motion", "arpeggio_scale_mix",
      "phrase_contour", "note_density", "range_fitness">>

RECURSIVE WeightedSum(_, _, _, _)
WeightedSum(weights, pitches, chords, i) ==
    IF i > Len(HEURISTIC_KEYS) THEN 0
    ELSE (IF HEURISTIC_KEYS[i] \in DOMAIN weights
          THEN weights[HEURISTIC_KEYS[i]] * Heuristic(HEURISTIC_KEYS[i], pitches, chords)
          ELSE 0)
         + WeightedSum(weights, pitches, chords, i + 1)

\* evaluate(genome): the sum of weight * heuristic over the keys of the weight
\* mapping, in units of 1/(100 * SCORE_ONE)
Evaluate(pitches, weights, chords) == WeightedSum(weights, pitches, chords, 1)

\* A float a heuristic returns is kept exact as the fraction num / den with
\* den > 0.  Ratio is a value computed by a division whose divisor is zero
\* exactly when den is: the fraction, or the ZeroDivisionError raised.
Ratio(num, den) ==
    IF den = 0 THEN [error |-> "ZeroDivisionError", num |-> 0, den |-> 1]
    ELSE [error |-> "none", num |-> num, den |-> den]

\* genome.get_bar(bar_index): the slice pitches[start:start + NOTES_PER_BAR]
GetBar(pitches, bar_index) ==
    LET start == bar_index * NOTES_PER_BAR
    IN SubSeq(pitches, start + 1,
              IF start + NOTES_PER_BAR <= Len(pitches) THEN start + NOTES_PER_BAR ELSE Len(pitches))

\* _is_chord_tone
IsChordTone(pitch, chord) ==
    pitch # REST /\ ((pitch % 12) - chord.root) % 12 \in SeqRange(chord.chord_tones)

\* _is_tension
IsTension(pitch, chord) ==
    pitch # REST /\ ((pitch % 12) - chord.root) % 12 \in SeqRange(chord.tensions)

\* _is_avoid_note
IsAvoidNote(pitch, chord) ==
    pitch # REST /\ ((pitch % 12) - chord.root) % 12 \in SeqRange(chord.avoid_notes)

\* _chord_tone_emphasis: score counts in halves
ChordToneEmphasis(pitches, chords) ==
    LET strong == (0..(NUM_BARS - 1)) \X {0, 4}
        Bar(bar_idx) == GetBar(pitches, bar_idx)
        Pitch(x) == Bar(x[1])[x[2] + 1]
        Chord(x) == chords[x[1] + 1]
        checked == {x \in strong : Pitch(x) # REST}
        checks == Cardinality(checked)
        score == 2 * Cardinality({x \in checked : IsChordTone(Pitch(x), Chord(x))})
                 + Cardinality({x \in checked : /\ ~IsChordTone(Pitch(x), Chord(x))
                                                /\ IsTension(Pitch(x), Chord(x))})
    IN IF \E x \in strong : x[2] + 1 > Len(Bar(x[1]))
       THEN [error |-> "IndexError", num |-> 0, den |-> 1]
       ELSE IF checks > 0 THEN Ratio(score, 2 * checks) ELSE Ratio(1, 2)

\* the non-rest slots of a melody as pairs of bar index and position in the
\* bar (1-based), as the loops over get_bar visit them
BarNotes(pitches) ==
    {x \in (0..(NUM_BARS - 1)) \X (1..NOTES_PER_BAR) :
        x[2] <= Len(GetBar(pitches, x[1])) /\ GetBar(pitches, x[1])[x[2]] # REST}

\* _tension_usage.  With r = tension_count / total_notes:
\*   r / 0.30                        = 10 * tension_count / (3 * total_notes)
\*   max(0, 1 - (r - 0.30) / 0.4)    = max(0, 7 * total_notes - 10 * tension_count)
\*                                     / (4 * total_notes)
TensionUsage(pitches, chords) ==
    LET notes == BarNotes(pitches)
        total_notes == Cardinality(notes)
        tension_count ==
            Cardinality({x \in notes : IsTension(GetBar(pitches, x[1])[x[2]], chords[x[1] + 1])})
    IN IF total_notes = 0 THEN Ratio(0, 1)
       ELSE IF tension_count * 10 <= 3 * total_notes
       THEN Ratio(10 * tension_count, 3 * total_notes)
       ELSE Ratio(MaxOf(0, 7 * total_notes - 10 * tension_count), 4 * total_notes)

\* _avoid_wrong_notes: the penalty counts in tenths
AvoidWrongNotes(pitches, chords) ==
    LET notes == BarNotes(pitches)
        total_notes == Cardinality(notes)
        Pitch(x) == GetBar(pitches, x[1])[x[2]]
        Chord(x) == chords[x[1] + 1]
        wrong_note_penalty ==
            10 * Cardinality({x \in notes : IsAvoidNote(Pitch(x), Chord(x))})
            + 3 * Cardinality({x \in notes : /\ ~IsAvoidNote(Pitch(x), Chord(x))
                                             /\ ~IsChordTone(Pitch(x), Chord(x))
                                             /\ ~IsTension(Pitch(x), Chord(x))})
    IN IF total_notes = 0 THEN Ratio(1, 2)
       ELSE Ratio(10 * total_notes - wrong_note_penalty, 10 * total_notes)

\* _call_and_response: the score counts in hundredths; a density
\* note_count / (2 * NOTES_PER_BAR) is compared in tenths, lo/10 <= density
\* being lo * 2 * NOTES_PER_BAR <= 10 * note_count
CallAndResponse(pitches) ==
    LET NoteCount(bar_idx) == Len(Sounded(GetBar(pitches, bar_idx)))
        phrase == [phrase_idx \in 0..3 |->
                      NoteCount(phrase_idx * 2) + NoteCount(phrase_idx * 2 + 1)]
        Within(lo, note_count, hi) ==
            /\ lo * 2 * NOTES_PER_BAR <= 10 * note_count
            /\ 10 * note_count <= hi * 2 * NOTES_PER_BAR
        Active(note_count) ==
            IF Within(4, note_count, 7) THEN 25
            ELSE IF Within(3, note_count, 8) THEN 15 ELSE 0
        breath == IF Within(2, phrase[1], 5) THEN 25
                  ELSE IF phrase[1] < phrase[0] THEN 15 ELSE 0
        resolution == IF NoteCount(6) > NoteCount(7) THEN 25
                      ELSE IF Within(2, phrase[3], 6) THEN 15 ELSE 0
    IN Ratio(Active(phrase[0]) + breath + Active(phrase[2]) + resolution, 100)

\* MelodicMotion without the test for an interval
MelodicMotionUnguarded(pitches) ==
    LET sounded == Sounded(pitches)
        intervals == IF Len(sounded) > 0 THEN Len(sounded) - 1 ELSE 0
        Interval(i) == IF sounded[i + 1] >= sounded[i] THEN sounded[i + 1] - sounded[i]
                       ELSE sounded[i] - sounded[i + 1]
        Count(lo, hi) == Cardinality({i \in 1..intervals : lo <= Interval(i) /\ Interval(i) <= hi})
        score == 10 * Count(0, 2) + 9 * Count(3, 4) + 7 * Count(5, 5) + 5 * Count(6, 7)
                 + 3 * Count(8, 9) + (intervals - Count(0, 9))
    IN Ratio(score, 10 * intervals)

\* _melodic_motion: the score counts in tenths
MelodicMotion(pitches) ==
    LET sounded == Sounded(pitches)
        intervals == IF Len(sounded) > 0 THEN Len(sounded) - 1 ELSE 0
        Interval(i) == IF sounded[i + 1] >= sounded[i] THEN sounded[i + 1] - sounded[i]
                       ELSE sounded[i] - sounded[i + 1]
        Count(lo, hi) == Cardinality({i \in 1..intervals : lo <= Interval(i) /\ Interval(i) <= hi})
        score == 10 * Count(0, 2) + 9 * Count(3, 4) + 7 * Count(5, 5) + 5 * Count(6, 7)
                 + 3 * Count(8, 9) + (intervals - Count(0, 9))
    IN IF intervals > 0 THEN Ratio(score, 10 * intervals) ELSE Ratio(1, 2)

\* _arpeggio_scale_mix.  With T = total_movements and m = max(patterns // 4, 1):
\*   ratio_score   = max(0, 1.0 - abs(0.6 - step_count / T) * 2)
\*                 = max(0, 5 * T - 2 * abs(3 * T - 5 * step_count)) / (5 * T)
\*   pattern_score = min(1.0, arp_up_scale_down / m) = min(m, arp_up_scale_down) / m
\*   0.6 * ratio_score + 0.4 * pattern_score
\*                 = (3 * ratio * m + 10 * T * pattern) / (25 * T * m)
ArpeggioScaleMix(pitches) ==
    LET sounded == Sounded(pitches)
        n == Len(sounded)
        Interval(i) == IF sounded[i + 1] >= sounded[i] THEN sounded[i + 1] - sounded[i]
                       ELSE sounded[i] - sounded[i + 1]
        step_count == Cardinality({i \in 1..(n - 1) : Interval(i) <= 2})
        skip_count == Cardinality({i \in 1..(n - 1) : Interval(i) >= 3})
        arp_up_scale_down ==
            Cardinality({i \in 1..(n - 3) :
                /\ sounded[i + 1] > sounded[i] /\ sounded[i + 1] - sounded[i] >= 3
                /\ sounded[i + 2] < sounded[i + 1] /\ sounded[i + 1] - sounded[i + 2] <= 2
                /\ sounded[i + 3] < sounded[i + 2] /\ sounded[i + 2] - sounded[i + 3] <= 2})
        patterns == n - 3
        total_movements == step_count + skip_count
        deviation == IF 3 * total_movements >= 5 * step_count
                     THEN 3 * total_movements - 5 * step_count
                     ELSE 5 * step_count - 3 * total_movements
        ratio == MaxOf(0, 5 * total_movements - 2 * deviation)
        m == MaxOf(patterns \div 4, 1)
        pattern == IF arp_up_scale_down <= m THEN arp_up_scale_down ELSE m
    IN IF n < 4 THEN Ratio(1, 2)
       ELSE IF total_movements = 0 THEN Ratio(1, 2)
       ELSE Ratio(3 * ratio * m + 10 * total_movements * pattern, 25 * total_movements * m)

\* _phrase_contour.  A phrase has at most 2 * NOTES_PER_BAR notes, hence
\* max_changes <= 14; lcm is the least common multiple of 1..14 and a phrase
\* score is kept in units of 1 / (100 * lcm).  With r = direction_changes /
\* max_changes:
\*   0.8 + r * 0.67          = (80 * max_changes + 67 * direction_changes) / (100 * max_changes)
\*   1.0 - (r - 0.3) * 2     = (160 * max_changes - 200 * direction_changes) / (100 * max_changes)
\*   max(0, 0.6 - (r - 0.5)) = max(0, 110 * max_changes - 100 * direction_changes)
\*                             / (100 * max_changes)
PhraseContour(pitches) ==
    LET lcm == 360360
        Phrase(phrase_idx) ==
            Sounded(GetBar(pitches, phrase_idx * 2) \o GetBar(pitches, phrase_idx * 2 + 1))
        Changes(a) ==
            Cardinality({i \in 2..(Len(a) - 1) :
                \/ a[i] - a[i - 1] > 0 /\ a[i + 1] - a[i] < 0
                \/ a[i] - a[i - 1] < 0 /\ a[i + 1] - a[i] > 0})
        Score(a) ==
            LET max_changes == Len(a) - 2
                direction_changes == Changes(a)
            IN IF Len(a) < 3 THEN 50 * lcm
               ELSE IF max_changes > 0
               THEN (lcm \div max_changes) *
                    (IF 10 * direction_changes <= 3 * max_changes
                     THEN 80 * max_changes + 67 * direction_changes
                     ELSE IF 2 * direction_changes <= max_changes
                     THEN 160 * max_changes - 200 * direction_changes
                     ELSE MaxOf(0, 110 * max_changes - 100 * direction_changes))
               ELSE 50 * lcm
        phrase_scores == [phrase_idx \in 0..3 |-> Score(Phrase(phrase_idx))]
    IN Ratio(phrase_scores[0] + phrase_scores[1] + phrase_scores[2] + phrase_scores[3],
             4 * 100 * lcm)

\* getattr(self, f"_{func}")(genome): the float returned or the exception
\* raised
HeuristicResult(func, pitches, chords) ==
    CASE func = "chord_tone_emphasis" -> ChordToneEmphasis(pitches, chords)
      [] func = "tension_usage" -> TensionUsage(pitches, chords)
      [] func = "avoid_wrong_notes" -> AvoidWrongNotes(pitches, chords)
      [] func = "call_and_response" -> CallAndResponse(pitches)
      [] func = "melodic_motion" -> MelodicMotion(pitches)
      [] func = "arpeggio_scale_mix" -> ArpeggioScaleMix(pitches)
      [] func = "phrase_contour" -> PhraseContour(pitches)
      [] func = "note_density" -> Ratio(NoteDensityScore(pitches), SCORE_ONE)
      [] func = "range_fitness" -> Ratio(RangeFitnessScore(pitches), SCORE_ONE)

\* get_default_weights(), in hundredths
DEFAULT_WEIGHTS ==
    [func \in SeqRange(HEURISTIC_KEYS) |->
        CASE func \in {"chord_tone_emphasis", "tension_usage", "avoid_wrong_notes",
                       "call_and_response"} -> 15
          [] func \in {"melodic_motion", "phrase_contour", "note_density"} -> 10
          [] func \in {"arpeggio_scale_mix", "range_fitness"} -> 5]

\* evaluate(genome) with the heuristics as fractions: the exception of the
\* first heuristic that raises, otherwise the summands weight * value of the
\* sum in the order of the weight mapping
EvaluateResult(pitches, weights, chords) ==
    LET keys == SelectSeq(HEURISTIC_KEYS, LAMBDA func : func \in DOMAIN weights)
        results == [i \in 1..Len(keys) |-> HeuristicResult(keys[i], pitches, chords)]
        raised == {i \in 1..Len(keys) : results[i].error # "none"}
    IN IF raised # {}
       THEN [error |-> results[Min(raised)].error, terms |-> <<>>]
       ELSE [error |-> "none",
             terms |-> [i \in 1..Len(keys) |->
                          [func |-> keys[i], weight |-> weights[keys[i]],
                           num |-> results[i].num, den |-> results[i].den]]]

\* the greatest common divisor of two naturals that are not both zero
RECURSIVE Gcd(_, _)
Gcd(a, b) == IF b = 0 THEN a ELSE Gcd(b, a % b)

\* the sum of evaluate over the summands from position i on, added to the
\* fraction acc; every fraction is kept in lowest terms
RECURSIVE SumTerms(_, _, _)
SumTerms(terms, i, acc) ==
    IF i > Len(terms) THEN acc
    ELSE LET lowest == Gcd(terms[i].num, terms[i].den)
             hundredths == Gcd(terms[i].weight, 100)
             a == Gcd(terms[i].weight \div hundredths, terms[i].den \div lowest)
             b == Gcd(terms[i].num \div lowest, 100 \div hundredths)
             num == ((terms[i].weight \div hundredths) \div a) * ((terms[i].num \div lowest) \div b)
             den == ((100 \div hundredths) \div b) * ((terms[i].den \div lowest) \div a)
             common == (acc.den \div Gcd(acc.den, den)) * den
             total == acc.num * (common \div acc.den) + num * (common \div den)
             h == Gcd(total, common)
         IN SumTerms(terms, i + 1, [num |-> total \div h, den |-> common \div h])

\* JazzFitnessEvaluator.__init__: self.weights = weights or
\* get_default_weights(); None and the empty mapping are the mapping without
\* keys
EvaluatorWeights(weights) == IF DOMAIN weights = {} THEN DEFAULT_WEIGHTS ELSE weights

\* evaluate(genome) of the evaluator constructed with a weight mapping: the
\* exception raised, or the value of the sum as a fraction in lowest terms
EvaluateValue(pitches, weights, chords) ==
    LET result == EvaluateResult(pitches, EvaluatorWeights(weights), chords)
    IN IF result.error # "none" THEN [error |-> result.error, num |-> 0, den |-> 1]
       ELSE LET total == SumTerms(result.terms, 1, [num |-> 0, den |-> 1])
            IN [error |-> "none", num |-> total.num, den |-> total.den]

\* ArgMaxFirst with the comparison turned round
RECURSIVE ArgMinFirst(_, _, _, _)
ArgMinFirst(scores, i, best, bestScore) ==
    IF i > Len(scores) THEN best
    ELSE IF scores[i] < bestScore
         THEN ArgMinFirst(scores, i + 1, i, scores[i])
         ELSE ArgMinFirst(scores, i + 1, best, bestScore)

\* the first position (1-based) of seq whose score is the maximum: Python's
\* max(genomes, key=...) keeps the first maximal element
\* ArgMaxFirst in which a later equal score replaces the best one
RECURSIVE ArgMaxLast(_, _, _, _)
ArgMaxLast(scores, i, best, bestScore) ==
    IF i > Len(scores) THEN best
    ELSE IF scores[i] >= bestScore
         THEN ArgMaxLast(scores, i + 1, i, scores[i])
         ELSE ArgMaxLast(scores, i + 1, best, bestScore)

\* max(genomes, key=...) over the scores from position i on: the position of
\* the first greatest score
RECURSIVE ArgMaxFirst(_, _, _, _)
ArgMaxFirst(scores, i, best, bestScore) ==
    IF i > Len(scores) THEN best
    ELSE IF scores[i] > bestScore
         THEN ArgMaxFirst(scores, i + 1, i, scores[i])
         ELSE ArgMaxFirst(scores, i + 1, best, bestScore)

\* get_best_genome(genomes) for a non-empty list of object addresses
GetBestGenome(genomes, heap, weights, chords) ==
    LET scores == [i \in 1..Len(genomes) |-> Evaluate(heap[genomes[i]], weights, chords)]
    IN genomes[ArgMaxFirst(scores, 2, 1, scores[1])]

\* weight mappings the evaluator is constructed with (weights in hundredths)
WeightSets ==
    {[k \in {"range_fitness"} |-> 5],
     [k \in {"note_density", "range_fitness"} |-> IF k = "note_density" THEN 10 ELSE 5]}

(***************************************************************************)
(* genetic/generator.py: the genetic operators on slot lists               *)
(***************************************************************************)
\* RandomChordTone that leaves the root of the chord out
RandomChordToneUnrooted(chord, u1, u2) ==
    Choice(<<60, 72>>, u2) + Choice(chord.chord_tones, u1)

\* _random_chord_tone(chord): two draws, the interval and then the octave
RandomChordTone(chord, u1, u2) ==
    Choice(<<60, 72>>, u2) + chord.root + Choice(chord.chord_tones, u1)

\* _generate_smart_random_genome, the inner loop: the slots of one bar from
\* pos on, k draws of d consumed so far
RECURSIVE GenBar(_, _, _, _, _)
GenBar(chord, d, k, pos, acc) ==
    IF pos = NOTES_PER_BAR THEN [pitches |-> acc, used |-> k]
    ELSE LET is_strong_beat == pos \in {0, 4}
         IN IF RandomLess(d[k + 1], 3, 10)
            THEN GenBar(chord, d, k + 1, pos + 1, Append(acc, REST))
            ELSE IF is_strong_beat /\ RandomLess(d[k + 2], 7, 10)
            THEN GenBar(chord, d, k + 4, pos + 1,
                        Append(acc, RandomChordTone(chord, d[k + 3], d[k + 4])))
            ELSE LET n == IF is_strong_beat THEN k + 3 ELSE k + 2
                 IN GenBar(chord, d, n, pos + 1,
                           Append(acc, RandInt(MIN_PITCH, MAX_PITCH, d[n])))

\* _generate_smart_random_genome, the outer loop: the bars from bar_idx on
RECURSIVE GenBars(_, _, _, _, _)
GenBars(chords, d, k, bar_idx, acc) ==
    IF bar_idx = NUM_BARS THEN [pitches |-> acc, used |-> k]
    ELSE LET bar == GenBar(chords[bar_idx + 1], d, k, 0, <<>>)
         IN GenBars(chords, d, bar.used, bar_idx + 1, acc \o bar.pitches)

GenerateSmartRandomGenome(chords, d) == GenBars(chords, d, 0, 0, <<>>)

\* most draws one genome can take
GENOME_DRAWS == 4 * TOTAL_NOTES

\* Crossover with the cut drawn from all bars, bar 0 included
CrossoverAnyBar(pitches1, pitches2, d) ==
    LET cut_bar == RandInt(0, NUM_BARS - 1, d[1])
        cut_index == cut_bar * NOTES_PER_BAR
    IN [pitches |-> SubSeq(pitches1, 1, cut_index)
                    \o SubSeq(pitches2, cut_index + 1, Len(pitches2)),
        cut_index |-> cut_index,
        used |-> 1]

\* _crossover(parent1, parent2): one draw
Crossover(pitches1, pitches2, d) ==
    LET cut_bar == RandInt(1, NUM_BARS - 1, d[1])
        cut_index == cut_bar * NOTES_PER_BAR
    IN [pitches |-> SubSeq(pitches1, 1, cut_index)
                    \o SubSeq(pitches2, cut_index + 1, Len(pitches2)),
        cut_index |-> cut_index,
        used |-> 1]

\* CrossoverPair whose second child takes the parents in the order of the first
CrossoverPairUnswapped(pitches1, pitches2, d) ==
    LET x1 == Crossover(pitches1, pitches2, <<d[1]>>)
        x2 == Crossover(pitches1, pitches2, <<d[2]>>)
    IN [child1 |-> x1.pitches, child2 |-> x2.pitches,
        cut_index1 |-> x1.cut_index, cut_index2 |-> x2.cut_index, used |-> 2]

\* generate, lines 110-111: child1 = _crossover(parent1, parent2) and then
\* child2 = _crossover(parent2, parent1), each call with a draw of its own
CrossoverPair(pitches1, pitches2, d) ==
    LET x1 == Crossover(pitches1, pitches2, <<d[1]>>)
        x2 == Crossover(pitches2, pitches1, <<d[2]>>)
    IN [child1 |-> x1.pitches, child2 |-> x2.pitches,
        cut_index1 |-> x1.cut_index, cut_index2 |-> x2.cut_index, used |-> 2]

\* MutationSkipped with > for >=
MutationSkippedStrict(u, mutation_rate) == u * 100 > mutation_rate * RAND_MOD

\* MutationSkipped with the comparison turned round
MutationSkippedInverted(u, mutation_rate) == u * 100 <= mutation_rate * RAND_MOD

\* the draw that decides whether _mutate fires: random.random() >= mutation_rate
\* returns the genome unchanged (mutation_rate in percent)
MutationSkipped(u, mutation_rate) == u * 100 >= mutation_rate * RAND_MOD

\* _mutate(genome): copied is FALSE when the genome object itself is returned
Mutate(pitches, mutation_rate, chords, d) ==
    IF MutationSkipped(d[1], mutation_rate)
    THEN [pitches |-> pitches, copied |-> FALSE, variant |-> "none", idx |-> -1, used |-> 1]
    ELSE LET idx == RandInt(0, TOTAL_NOTES - 1, d[3])
             chord == chords[(idx \div NOTES_PER_BAR) + 1]
         IN IF RandomLess(d[2], 5, 10)
            THEN IF RandomLess(d[4], 2, 10)
                 THEN [pitches |-> [pitches EXCEPT ![idx + 1] = REST],
                       copied |-> TRUE, variant |-> "random", idx |-> idx, used |-> 4]
                 ELSE [pitches |-> [pitches EXCEPT ![idx + 1] =
                                        RandInt(MIN_PITCH, MAX_PITCH, d[5])],
                       copied |-> TRUE, variant |-> "random", idx |-> idx, used |-> 5]
            ELSE IF RandomLess(d[2], 8, 10)
            THEN [pitches |-> [pitches EXCEPT ![idx + 1] =
                                   RandomChordTone(chord, d[4], d[5])],
                  copied |-> TRUE, variant |-> "snap", idx |-> idx, used |-> 5]
            ELSE IF pitches[idx + 1] = REST
                 THEN [pitches |-> [pitches EXCEPT ![idx + 1] =
                                        RandomChordTone(chord, d[4], d[5])],
                       copied |-> TRUE, variant |-> "toggle", idx |-> idx, used |-> 5]
                 ELSE [pitches |-> [pitches EXCEPT ![idx + 1] = REST],
                       copied |-> TRUE, variant |-> "toggle", idx |-> idx, used |-> 3]

MUTATE_DRAWS == 5

(***************************************************************************)
(* genetic/pairing.py.  parents is a list of object addresses (the same    *)
(* object may occur at several positions), heap maps an address to the     *)
(* slot list of the object.  A strategy returns the positions (0-based) of *)
(* the two parents it picked, or the error it raised.                      *)
(***************************************************************************)
PairingError == [error |-> "ValueError", pos1 |-> -1, pos2 |-> -1, used |-> 0, fallback |-> FALSE]

\* RandomPairing that only rejects the empty list
RandomPairingNonEmpty(parents, d) ==
    LET n == Len(parents)
    IN IF n < 1 THEN PairingError
       ELSE LET j1 == RandRange(n, d[1])
                j2 == RandRange(n - 1, d[2])
            IN [error |-> "none", pos1 |-> j1,
                pos2 |-> IF j2 = j1 THEN n - 1 ELSE j2,
                used |-> 2, fallback |-> FALSE]

\* random_pairing: random.sample(parents, 2) takes the element at index j1 of
\* a copy of the list, moves the last element into that place and takes the
\* element at index j2 of the first n-1 places
RandomPairing(parents, d) ==
    LET n == Len(parents)
    IN IF n < 2 THEN PairingError
       ELSE LET j1 == RandRange(n, d[1])
                j2 == RandRange(n - 1, d[2])
            IN [error |-> "none", pos1 |-> j1,
                pos2 |-> IF j2 = j1 THEN n - 1 ELSE j2,
                used |-> 2, fallback |-> FALSE]

\* _similarity_score
SimilarityScore(pitches1, pitches2) ==
    LET n == IF Len(pitches1) <= Len(pitches2) THEN Len(pitches1) ELSE Len(pitches2)
    IN Cardinality({i \in 1..n : pitches1[i] = pitches2[i]})

\* SimilarityScan in which a later candidate with an equal score replaces
\* the best one
RECURSIVE SimilarityScanLastBest(_, _, _, _, _, _, _)
SimilarityScanLastBest(parents, heap, parent1_index, pick_most_similar, index, best_index, best_score) ==
    IF index >= Len(parents) THEN best_index
    ELSE IF index = parent1_index
    THEN SimilarityScanLastBest(parents, heap, parent1_index, pick_most_similar,
                                index + 1, best_index, best_score)
    ELSE LET score == SimilarityScore(heap[parents[parent1_index + 1]],
                                      heap[parents[index + 1]])
             better == \/ best_index = -1
                       \/ pick_most_similar /\ score >= best_score
                       \/ ~pick_most_similar /\ score <= best_score
         IN IF better
            THEN SimilarityScanLastBest(parents, heap, parent1_index, pick_most_similar,
                                        index + 1, index, score)
            ELSE SimilarityScanLastBest(parents, heap, parent1_index, pick_most_similar,
                                        index + 1, best_index, best_score)

\* the loop of _similarity_pairing over the candidates from index on;
\* best_index -1 stands for None
RECURSIVE SimilarityScan(_, _, _, _, _, _, _)
SimilarityScan(parents, heap, parent1_index, pick_most_similar, index, best_index, best_score) ==
    IF index >= Len(parents) THEN best_index
    ELSE IF index = parent1_index
    THEN SimilarityScan(parents, heap, parent1_index, pick_most_similar,
                        index + 1, best_index, best_score)
    ELSE LET score == SimilarityScore(heap[parents[parent1_index + 1]],
                                      heap[parents[index + 1]])
             better == \/ best_index = -1
                       \/ pick_most_similar /\ score > best_score
                       \/ ~pick_most_similar /\ score < best_score
         IN IF better
            THEN SimilarityScan(parents, heap, parent1_index, pick_most_similar,
                                index + 1, index, score)
            ELSE SimilarityScan(parents, heap, parent1_index, pick_most_similar,
                                index + 1, best_index, best_score)

\* SimilarityPairingImpl that always hands the choice to random_pairing
SimilarityPairingResampling(parents, heap, pick_most_similar, d) ==
    LET r == RandomPairing(parents, Tail(d))
    IN IF r.error # "none" THEN r ELSE [r EXCEPT !.used = r.used + 1, !.fallback = TRUE]

\* _similarity_pairing
SimilarityPairingImpl(parents, heap, pick_most_similar, d) ==
    LET n == Len(parents)
    IN IF n < 2 THEN PairingError
       ELSE LET parent1_index == RandRange(n, d[1])
                best_index == SimilarityScan(parents, heap, parent1_index,
                                             pick_most_similar, 0, -1, 0)
            IN IF best_index = -1
               THEN LET r == RandomPairing(parents, Tail(d))
                    IN [r EXCEPT !.used = r.used + 1, !.fallback = TRUE]
               ELSE [error |-> "none", pos1 |-> parent1_index, pos2 |-> best_index,
                     used |-> 1, fallback |-> FALSE]

\* BestFirstLastPairing that draws from the top and the bottom half
BestFirstLastHalves(parents, d) ==
    LET n == Len(parents)
    IN IF n < 2 THEN PairingError
       ELSE LET top_count == MaxOf(1, n \div 2)
                bottom_count == MaxOf(1, n \div 2)
                i1 == RandRange(top_count, d[1])
                i2 == (n - bottom_count) + RandRange(bottom_count, d[2])
            IN IF parents[i1 + 1] = parents[i2 + 1]
               THEN LET r == RandomPairing(parents, Tail(Tail(d)))
                    IN [r EXCEPT !.used = r.used + 2, !.fallback = TRUE]
               ELSE [error |-> "none", pos1 |-> i1, pos2 |-> i2,
                     used |-> 2, fallback |-> FALSE]

\* best_first_last_pairing
BestFirstLastPairing(parents, d) ==
    LET n == Len(parents)
    IN IF n < 2 THEN PairingError
       ELSE LET top_count == MaxOf(1, n \div 4)
                bottom_count == MaxOf(1, n \div 4)
                i1 == RandRange(top_count, d[1])
                i2 == (n - bottom_count) + RandRange(bottom_count, d[2])
            IN IF parents[i1 + 1] = parents[i2 + 1]
               THEN LET r == RandomPairing(parents, Tail(Tail(d)))
                    IN [r EXCEPT !.used = r.used + 2, !.fallback = TRUE]
               ELSE [error |-> "none", pos1 |-> i1, pos2 |-> i2,
                     used |-> 2, fallback |-> FALSE]

\* PAIRING_STRATEGIES
StrategyNames == {"random", "similarity", "dissimilarity", "best_first_last"}

\* PairingStrategy that takes every name for "random"
PairingStrategyAllRandom(strategy, parents, heap, d) == RandomPairing(parents, d)

\* self.pairing_strategy(parents)
PairingStrategy(strategy, parents, heap, d) ==
    CASE strategy = "random" -> RandomPairing(parents, d)
      [] strategy = "similarity" -> SimilarityPairingImpl(parents, heap, TRUE, d)
      [] strategy = "dissimilarity" -> SimilarityPairingImpl(parents, heap, FALSE, d)
      [] strategy = "best_first_last" -> BestFirstLastPairing(parents, d)

PAIRING_DRAWS == 4

\* A str is the sequence of its characters.  ASCII_CASE lists the letters
\* that str.lower() changes with what it changes them to (the names of the
\* registry and the strings given here are ASCII).
ASCII_CASE ==
    <<<<"A", "a">>, <<"B", "b">>, <<"C", "c">>, <<"D", "d">>, <<"E", "e">>, <<"F", "f">>,
      <<"G", "g">>, <<"H", "h">>, <<"I", "i">>, <<"J", "j">>, <<"K", "k">>, <<"L", "l">>,
      <<"M", "m">>, <<"N", "n">>, <<"O", "o">>, <<"P", "p">>, <<"Q", "q">>, <<"R", "r">>,
      <<"S", "s">>, <<"T", "t">>, <<"U", "u">>, <<"V", "v">>, <<"W", "w">>, <<"X", "x">>,
      <<"Y", "y">>, <<"Z", "z">>>>

\* Lower that leaves every character as it is
LowerUnchanged(str) == str

\* strategy.lower()
Lower(str) ==
    [i \in 1..Len(str) |->
        IF \E k \in 1..Len(ASCII_CASE) : ASCII_CASE[k][1] = str[i]
        THEN ASCII_CASE[CHOOSE k \in 1..Len(ASCII_CASE) : ASCII_CASE[k][1] = str[i]][2]
        ELSE str[i]]

\* PAIRING_STRATEGIES: the keys of the registry with the function each one
\* is bound to, a function being named by its key
PAIRING_STRATEGIES ==
    {[key |-> <<"r", "a", "n", "d", "o", "m">>, fn |-> "random"],
     [key |-> <<"s", "i", "m", "i", "l", "a", "r", "i", "t", "y">>, fn |-> "similarity"],
     [key |-> <<"d", "i", "s", "s", "i", "m", "i", "l", "a", "r", "i", "t", "y">>,
      fn |-> "dissimilarity"],
     [key |-> <<"b", "e", "s", "t", "_", "f", "i", "r", "s", "t", "_", "l", "a", "s", "t">>,
      fn |-> "best_first_last"]}

\* resolve_pairing_strategy.  A value is a record of its kind ("callable",
\* "str" or "other") and its content: the name of the function, the
\* characters of the string, or a print name.
ResolvePairingStrategy(strategy) ==
    IF strategy.kind = "callable" THEN [error |-> "none", fn |-> strategy.value]
    ELSE IF strategy.kind # "str" THEN [error |-> "TypeError", fn |-> "none"]
    ELSE LET key == Lower(strategy.value)
         IN IF ~(\E e \in PAIRING_STRATEGIES : e.key = key)
            THEN [error |-> "ValueError", fn |-> "none"]
            ELSE [error |-> "none",
                  fn |-> (CHOOSE e \in PAIRING_STRATEGIES : e.key = key).fn]

(***************************************************************************)
(* Objects.  A MelodyGenome is an object with an address (what id() and    *)
(* `is` see) and a slot list; heap maps the address of every live object   *)
(* to its slot list and every free address to the empty list.  Which free  *)
(* address a new object gets is up to the allocator: "low" takes the       *)
(* lowest free address, "high" the highest.                                *)
(***************************************************************************)
MaxAddr == 2 * MaxPop + 4
AddrPool == 1..MaxAddr
Free == <<>>
EmptyHeap == [a \in AddrPool |-> Free]

Alloc(heap, policy) ==
    LET free == {a \in AddrPool : heap[a] = Free}
    IN IF policy = "low" THEN Min(free) ELSE Max(free)

\* MelodyGenome(pitches=...): __post_init__ turns an empty list into all rests
NewGenome(heap, pitches, policy) ==
    LET a == Alloc(heap, policy)
        stored == IF pitches = <<>> THEN [i \in 1..TOTAL_NOTES |-> REST] ELSE pitches
    IN [heap |-> [heap EXCEPT ![a] = stored], addr |-> a]

\* the heap with only the objects of `keep` left
Collect(heap, keep) == [a \in AddrPool |-> IF a \in keep THEN heap[a] ELSE Free]

\* InsertDesc that puts x in front of the elements whose key equals its own
InsertDescBeforeEqual(sorted, x, key) ==
    LET k == Cardinality({i \in 1..Len(sorted) : key[sorted[i]] > key[x]})
    IN SubSeq(sorted, 1, k) \o <<x>> \o SubSeq(sorted, k + 1, Len(sorted))

\* list.sort(key=..., reverse=True) is stable: x goes behind every element
\* whose key is greater than or equal to its own
InsertDesc(sorted, x, key) ==
    LET k == Cardinality({i \in 1..Len(sorted) : key[sorted[i]] >= key[x]})
    IN SubSeq(sorted, 1, k) \o <<x>> \o SubSeq(sorted, k + 1, Len(sorted))

RECURSIVE SortDescFrom(_, _, _, _)
SortDescFrom(seq, key, i, acc) ==
    IF i > Len(seq) THEN acc
    ELSE SortDescFrom(seq, key, i + 1, InsertDesc(acc, seq[i], key))

\* seq sorted by key[address], descending, equal keys in their order in seq
SortDesc(seq, key) == SortDescFrom(seq, key, 1, <<>>)

(***************************************************************************)
(* GeneticJazzMelodyGenerator.  params holds the constructor's arguments   *)
(* and the argument of generate; an engine state s is a record             *)
(*   pc             where generate stands                                  *)
(*   gen            the loop variable of generate                          *)
(*   rng            the state of the random generator                      *)
(*   heap           the MelodyGenome objects                               *)
(*   population     self._population, a list of addresses                  *)
(*   new_population, parents   the locals of generate                      *)
(*   pairings       the passes of the while loop begun in this generation  *)
(*   pair           the positions in parents of parent1 and parent2, the   *)
(*                  pair the strategy returned last; <<>> before a pair    *)
(*   result         the address generate returned, 0 before it returns     *)
(*   error          the exception generate raised, "none" otherwise        *)
(***************************************************************************)
FitnessOf(s, a) == Evaluate(s.heap[a], params.weights, params.progression)

\* _initialize_population: n more genomes
RECURSIVE InitializePopulation(_, _, _, _, _)
InitializePopulation(n, heap, population, rng, policy) ==
    IF n = 0 THEN [heap |-> heap, population |-> population, rng |-> rng]
    ELSE LET d == Stream(rng, GENOME_DRAWS)
             genome == GenerateSmartRandomGenome(params.progression, d)
             obj == NewGenome(heap, genome.pitches, policy)
         IN InitializePopulation(n - 1, obj.heap, Append(population, obj.addr),
                                 Advance(rng, d, genome.used), policy)

\* generate, line 84
StepInitialize(s, policy) ==
    LET init == InitializePopulation(params.population_size, s.heap, <<>>, s.rng, policy)
    IN [s EXCEPT !.pc = "loop", !.heap = init.heap,
                 !.population = init.population, !.rng = init.rng]

\* CopyAll that hands back the objects themselves
CopyAllAliasing(genomes, i, heap, acc, policy) == [heap |-> heap, copies |-> genomes]

\* genome.copy() for each genome of a list, in order
RECURSIVE CopyAll(_, _, _, _, _)
CopyAll(genomes, i, heap, acc, policy) ==
    IF i > Len(genomes) THEN [heap |-> heap, copies |-> acc]
    ELSE LET obj == NewGenome(heap, heap[genomes[i]], policy)
         IN CopyAll(genomes, i + 1, obj.heap, Append(acc, obj.addr), policy)

\* Prefix that keeps the whole list
PrefixUncut(seq, n) == seq

\* list[:n] for n >= 0
Prefix(seq, n) == SubSeq(seq, 1, IF n <= Len(seq) THEN n ELSE Len(seq))

\* bisect(cum_weights, random() * total, 0, hi): the number of the first hi
\* cumulative weights that are <= u * total / RAND_MOD
Bisect(cum_weights, u, total, hi) ==
    Cardinality({i \in 1..hi : cum_weights[i] * RAND_MOD <= u * total})

RECURSIVE Accumulate(_, _, _)
Accumulate(values, i, acc) ==
    IF i > Len(values) THEN acc
    ELSE Accumulate(values, i + 1,
                    Append(acc, values[i] + (IF acc = <<>> THEN 0 ELSE acc[Len(acc)])))

\* _select_parents: random.choices(population, weights, k=population_size)
\* with the weight max(0.01, fitness), one draw per choice
SelectParents(s, d) ==
    LET n == Len(s.population)
        fitness_values == [i \in 1..n |-> MaxOf(SCORE_ONE, FitnessOf(s, s.population[i]))]
        cum_weights == Accumulate(fitness_values, 1, <<>>)
        total == cum_weights[n]
    IN [i \in 1..params.population_size |->
           s.population[Bisect(cum_weights, d[i], total, n - 1) + 1]]

\* fitness_by_id.get(id(genome), 0.0)
FitnessById(s) == [a \in AddrPool |-> IF a \in SeqRange(s.population) THEN FitnessOf(s, a) ELSE 0]

\* ParentSortKey with the address of the object as a tie-break
ParentSortKeyWithAddress(s) == [a \in AddrPool |-> FitnessById(s)[a] * (MaxAddr + 1) + a]

\* ParentSortKey with the sign turned round
ParentSortKeyNegated(s) == [a \in AddrPool |-> 0 - FitnessById(s)[a]]

\* the key parents.sort orders by
ParentSortKey(s) == FitnessById(s)

\* the key fitness_scores.sort orders by
ScoreSortKey(s) == [a \in AddrPool |-> IF a \in SeqRange(s.population) THEN FitnessOf(s, a) ELSE 0]

\* EliteSlice taken from the wrong end of the sorted list
EliteSliceWorst(fitness_scores, elite_size) ==
    SubSeq(fitness_scores, Len(fitness_scores) - elite_size + 1, Len(fitness_scores))

\* the genomes of fitness_scores[:elite_size]
EliteSlice(fitness_scores, elite_size) ==
    SubSeq(fitness_scores, 1,
           IF elite_size <= Len(fitness_scores) THEN elite_size ELSE Len(fitness_scores))

\* generate, lines 88-106: evaluate and sort, copy the elite, select and sort
\* the parents
StepSelect(s, policy) ==
    LET fitness_scores == SortDesc(s.population, ScoreSortKey(s))
        elite == CopyAll(EliteSlice(fitness_scores, params.elite_size), 1, s.heap, <<>>, policy)
        d == Stream(s.rng, params.population_size)
        parents == SortDesc(SelectParents(s, d), ParentSortKey(s))
    IN [s EXCEPT !.pc = "breed", !.heap = elite.heap,
                 !.new_population = elite.copies, !.parents = parents,
                 !.pairings = 0,
                 !.rng = Advance(s.rng, d, params.population_size)]

\* genome.copy() that hands back the object it was called on
GenomeCopyAliasing(heap, genome, policy) == [heap |-> heap, addr |-> genome]

\* genome.copy(): a new object whose slot list is a copy of the slot list
GenomeCopy(heap, genome, policy) == NewGenome(heap, heap[genome], policy)

\* self._mutate(genome) on objects: the argument itself when the mutation
\* does not fire, else a copy of it with the slot idx written
MutateObject(heap, genome, mutation_rate, chords, d, policy) ==
    LET m == Mutate(heap[genome], mutation_rate, chords, d)
        mutated == GenomeCopy(heap, genome, policy)
    IN IF m.copied
       THEN [heap |-> [mutated.heap EXCEPT ![mutated.addr][m.idx + 1] = m.pitches[m.idx + 1]],
             addr |-> mutated.addr, copied |-> TRUE, used |-> m.used]
       ELSE [heap |-> heap, addr |-> genome, copied |-> FALSE, used |-> m.used]

\* child = self._crossover(parent1, parent2) on the heap and the generator
\* state of t: the child is a new object
CrossoverStep(t, pitches1, pitches2, policy) ==
    LET d == Stream(t.rng, 1)
        x == Crossover(pitches1, pitches2, d)
        child == NewGenome(t.heap, x.pitches, policy)
    IN [heap |-> child.heap, rng |-> Advance(t.rng, d, x.used), addr |-> child.addr]

\* child = self._mutate(child) on the heap and the generator state of t: when
\* the mutation fires the copy is made while the crossover result is alive
\* and the crossover result is dropped afterwards
MutateStep(t, child, policy) ==
    LET d == Stream(t.rng, MUTATE_DRAWS)
        m == Mutate(t.heap[child], params.mutation_rate, params.progression, d)
        copy == NewGenome(t.heap, m.pitches, policy)
    IN IF m.copied
       THEN [heap |-> [copy.heap EXCEPT ![child] = Free],
             rng |-> Advance(t.rng, d, m.used), addr |-> copy.addr]
       ELSE [heap |-> t.heap, rng |-> Advance(t.rng, d, m.used), addr |-> child]

\* generate, lines 110-116, for the parents at positions pos1 and pos2 of the
\* parents list and the generator state rng left by the pairing strategy
BreedPair(s, pos1, pos2, rng, policy) ==
    LET parent1 == s.heap[s.parents[pos1 + 1]]
        parent2 == s.heap[s.parents[pos2 + 1]]
        t1 == CrossoverStep([heap |-> s.heap, rng |-> rng], parent1, parent2, policy)
        t2 == CrossoverStep(t1, parent2, parent1, policy)
        t3 == MutateStep(t2, t1.addr, policy)
        t4 == MutateStep(t3, t2.addr, policy)
    IN [s EXCEPT !.heap = t4.heap,
                 !.new_population = s.new_population \o <<t3.addr, t4.addr>>,
                 !.rng = t4.rng]

\* generate, lines 109-116: one pass of the while loop
StepBreed(s, policy) ==
    LET d == Stream(s.rng, PAIRING_DRAWS)
        pair == PairingStrategy(params.pairing_strategy, s.parents, s.heap, d)
        t == [s EXCEPT !.pairings = s.pairings + 1]
    IN IF pair.error # "none"
       THEN [t EXCEPT !.pc = "raised", !.error = pair.error]
       ELSE BreedPair([t EXCEPT !.pair = <<pair.pos1, pair.pos2>>], pair.pos1, pair.pos2,
                      Advance(s.rng, d, pair.used), policy)

\* StepReplace that leaves the loop variable of generate where it was
StepReplaceStalling(s) ==
    LET population == Prefix(s.new_population, params.population_size)
    IN [s EXCEPT !.pc = "loop",
                 !.population = population,
                 !.new_population = <<>>, !.parents = <<>>, !.pair = <<>>,
                 !.heap = Collect(s.heap, SeqRange(population))]

\* generate, line 118: the next generation replaces the population
StepReplace(s) ==
    LET population == Prefix(s.new_population, params.population_size)
    IN [s EXCEPT !.pc = "loop", !.gen = s.gen + 1,
                 !.population = population,
                 !.new_population = <<>>, !.parents = <<>>, !.pair = <<>>,
                 !.heap = Collect(s.heap, SeqRange(population))]

\* StepReturn that finds the best genome by sorting self._population in place
StepReturnSorting(s) ==
    LET sorted == SortDesc(s.population, ScoreSortKey(s))
    IN [s EXCEPT !.pc = "done", !.population = sorted, !.result = sorted[1]]

\* generate, line 120
StepReturn(s) ==
    [s EXCEPT !.pc = "done",
              !.result = GetBestGenome(s.population, s.heap, params.weights, params.progression)]

\* one step of generate from state s
Step(s, policy) ==
    CASE s.pc = "start" -> StepInitialize(s, policy)
      [] s.pc = "loop" /\ s.gen < params.generations -> StepSelect(s, policy)
      [] s.pc = "loop" /\ s.gen >= params.generations -> StepReturn(s)
      [] s.pc = "breed" /\ Len(s.new_population) < params.population_size -> StepBreed(s, policy)
      [] s.pc = "breed" /\ Len(s.new_population) >= params.population_size -> StepReplace(s)
      [] OTHER -> s

\* the state after __init__
InitialEngine(seed) ==
    [pc |-> "start", gen |-> 0, rng |-> seed, heap |-> EmptyHeap,
     population |-> <<>>, new_population |-> <<>>, parents |-> <<>>, pairings |-> 0,
     pair |-> <<>>,
     result |-> 0, error |-> "none"]


(***************************************************************************)
(* Specification of the engine: one call of generate on a generator built  *)
(* from admissible arguments.  run is the execution whose objects get the  *)
(* lowest free addresses; twin is a second execution of the same call on   *)
(* the same random stream whose objects get the highest free addresses.    *)
(***************************************************************************)
MutationRates == {0, 50, 100}

Seed(i) == (i * 7919) % RAND_MOD

\* the progression of the engine's runs
EngineProgressions == {get_ii_v_i_progression.chords}

ParamSets ==
    {[progression |-> p, weights |-> w, population_size |-> n, mutation_rate |-> m,
      elite_size |-> e, pairing_strategy |-> st, generations |-> g] :
        p \in EngineProgressions, w \in WeightSets, n \in 1..MaxPop, m \in MutationRates,
        e \in 0..MaxPop, st \in StrategyNames, g \in 0..MaxGen}

NoCall == [op |-> "none"]

Init ==
    /\ params \in {c \in ParamSets : c.elite_size <= c.population_size}
    /\ \E i \in 1..MaxSeed :
          /\ run = InitialEngine(Seed(i))
          /\ twin = InitialEngine(Seed(i))
    /\ call = NoCall

Initialize ==
    /\ run.pc = "start"
    /\ run' = StepInitialize(run, "low")
    /\ twin' = Step(twin, "high")
    /\ UNCHANGED <<params, call>>

Select ==
    /\ run.pc = "loop"
    /\ run.gen < params.generations
    /\ run' = StepSelect(run, "low")
    /\ twin' = Step(twin, "high")
    /\ UNCHANGED <<params, call>>

Breed ==
    /\ run.pc = "breed"
    /\ Len(run.new_population) < params.population_size
    /\ run' = StepBreed(run, "low")
    /\ twin' = Step(twin, "high")
    /\ UNCHANGED <<params, call>>

Replace ==
    /\ run.pc = "breed"
    /\ Len(run.new_population) >= params.population_size
    /\ run' = StepReplace(run)
    /\ twin' = Step(twin, "high")
    /\ UNCHANGED <<params, call>>

Return ==
    /\ run.pc = "loop"
    /\ run.gen >= params.generations
    /\ run' = StepReturn(run)
    /\ twin' = Step(twin, "high")
    /\ UNCHANGED <<params, call>>

Next == Initialize \/ Select \/ Breed \/ Replace \/ Return

Spec == Init /\ [][Next]_vars

\* the slot lists of a list of objects
Pitches(s, genomes) == [i \in 1..Len(genomes) |-> s.heap[genomes[i]]]

MaxFitness(s) == Max({FitnessOf(s, s.population[i]) : i \in 1..Len(s.population)})


(***************************************************************************)
(* Specification of the operations: one call of a constructor, a genetic   *)
(* operator or a pairing strategy on arguments and draws taken from        *)
(* bounded sets; call holds the arguments and the outcome of the call.     *)
(***************************************************************************)
AllRests == [i \in 1..TOTAL_NOTES |-> REST]

Pedal == [i \in 1..TOTAL_NOTES |-> MIN_PITCH]

SmartMelody(i) ==
    GenerateSmartRandomGenome(get_ii_v_i_progression.chords,
                              Stream(Seed(i), GENOME_DRAWS)).pitches

SampleMelodies == {AllRests, Pedal} \cup {SmartMelody(i) : i \in 1..MaxSeed}

\* every raw draw
RawDraws == 0..(RAND_MOD - 1)

\* raw draws on both sides of every threshold the operators compare with
FewDraws == {0, (3 * RAND_MOD) \div 10, (6 * RAND_MOD) \div 10, RAND_MOD - 1}

\* one raw draw for every slot index
IdxDraws == {(i * RAND_MOD) \div TOTAL_NOTES : i \in 0..(TOTAL_NOTES - 1)}

\* objects for the pairing calls: addresses 1 and 2 hold equal slot lists
SampleHeap ==
    [a \in AddrPool |->
        IF a \in {1, 2} THEN SmartMelody(1)
        ELSE IF a = 3 THEN Pedal
        ELSE Free]

SampleAddrs == {1, 2, 3}

ParentLists == UNION {[1..n -> SampleAddrs] : n \in 0..MaxParents}

\* objects for the pairing calls on lists without repetition: the object at
\* address a sounds its first a slots, so no two of them are equal
DistinctHeap ==
    [a \in 1..MaxDistinct |-> [i \in 1..TOTAL_NOTES |-> IF i <= a THEN MIN_PITCH ELSE REST]]

\* the arguments of the pairing calls: a parents list and the objects it
\* refers to
PairingPools ==
    {[heap |-> SampleHeap, parents |-> parents] : parents \in ParentLists}
    \cup {[heap |-> DistinctHeap, parents |-> [i \in 1..n |-> i]] : n \in 2..MaxDistinct}

\* values given as pairing_strategy: the registered functions and a
\* function of the caller, every registered name in lower case, in upper case
\* and capitalized, strings that are no registered name, and values that are
\* neither callable nor a string
StrategyArgs ==
    LET Upper(str) ==
            [i \in 1..Len(str) |->
                IF \E k \in 1..Len(ASCII_CASE) : ASCII_CASE[k][2] = str[i]
                THEN ASCII_CASE[CHOOSE k \in 1..Len(ASCII_CASE) : ASCII_CASE[k][2] = str[i]][1]
                ELSE str[i]]
        Capitalized(str) == <<Upper(str)[1]>> \o Tail(str)
        names == {e.key : e \in PAIRING_STRATEGIES}
        unknown == {<<>>, <<"r", "a", "n", "d">>, <<" ", "r", "a", "n", "d", "o", "m">>,
                    <<"r", "a", "n", "d", "o", "m", " ">>, <<"R", "A", "N", "D", "O", "M", "S">>,
                    <<"b", "e", "s", "t", "-", "f", "i", "r", "s", "t", "-", "l", "a", "s", "t">>,
                    <<"e", "l", "i", "t", "i", "s", "t">>}
    IN {[kind |-> "callable", value |-> f] : f \in StrategyNames \cup {"custom_pairing"}}
       \cup {[kind |-> "str", value |-> str] :
                str \in names \cup {Upper(n) : n \in names} \cup {Capitalized(n) : n \in names}
                        \cup unknown}
       \cup {[kind |-> "other", value |-> v] : v \in {"None", "42"}}

\* the melody that repeats a pattern of slots
Periodic(pattern) == [i \in 1..TOTAL_NOTES |-> pattern[((i - 1) % Len(pattern)) + 1]]

\* melodies given to the evaluator: the melodies whose first k slots sound,
\* for every k; repeated patterns (a phrase that turns three times, an
\* arpeggio up with a scale down, a scale, leaps, sparse notes); generated
\* melodies with the pitches above MAX_PITCH taken down an octave; the
\* sample melodies; and a list that is four slots short
EvalMelodies ==
    {[i \in 1..TOTAL_NOTES |-> IF i <= k THEN MIN_PITCH ELSE REST] : k \in 0..TOTAL_NOTES}
    \cup {Periodic(pattern) : pattern \in
            {<<60, 62, 64, 65, 67, 65, 67, 69, 67, 65, 64, 62, REST, REST, REST, REST>>,
             <<60, 64, 62, 60>>,
             <<60, 62, 64, 65, 67, 69, 71, 72>>,
             <<60, 84>>,
             <<60, REST, 72, REST>>,
             <<REST, REST, REST, 65>>,
             <<62, 65, 69, 72, REST, REST, REST, REST>>,
             <<66, 61, 63, 68, 70, REST, 73, 75, 77, REST, REST, 80, 78, REST, REST, REST>>}}
    \cup {[i \in 1..TOTAL_NOTES |->
             IF SmartMelody(k)[i] > MAX_PITCH THEN SmartMelody(k)[i] - 12 ELSE SmartMelody(k)[i]] :
          k \in 1..MaxEvalSeed}
    \cup SampleMelodies
    \cup {SubSeq(Pedal, 1, TOTAL_NOTES - 4)}

OpInit ==
    /\ params = CHOOSE c \in ParamSets : TRUE
    /\ run = InitialEngine(Seed(1))
    /\ twin = InitialEngine(Seed(1))
    /\ call = NoCall

CallChordProgression ==
    /\ call = NoCall
    /\ \E n \in 0..MaxChords, p \in Progressions :
        LET chords == [i \in 1..n |-> p[((i - 1) % NUM_BARS) + 1]]
        IN /\ call' = [op |-> "ChordProgression", chords |-> chords,
                       out |-> ChordProgression(chords)]
           /\ UNCHANGED <<params, run, twin>>

CallCrossover ==
    /\ call = NoCall
    /\ \E p1 \in SampleMelodies, p2 \in SampleMelodies, u \in RawDraws :
        /\ call' = [op |-> "crossover", parent1 |-> p1, parent2 |-> p2,
                    out |-> Crossover(p1, p2, <<u>>)]
        /\ UNCHANGED <<params, run, twin>>

CallMutate ==
    /\ call = NoCall
    /\ \E g \in SampleMelodies, m \in MutationRates, p \in Progressions,
       u1 \in FewDraws, u2 \in FewDraws, u3 \in IdxDraws, u4 \in FewDraws, u5 \in FewDraws :
        /\ call' = [op |-> "mutate", genome |-> g, mutation_rate |-> m,
                    progression |-> p,
                    out |-> Mutate(g, m, p, <<u1, u2, u3, u4, u5>>)]
        /\ UNCHANGED <<params, run, twin>>

\* the two crossovers of one pass of the while loop, on the next two draws
\* of the generator in state rng
CallCrossoverPair ==
    /\ call = NoCall
    /\ \E p1 \in SampleMelodies, p2 \in SampleMelodies, rng \in RawDraws :
        /\ call' = [op |-> "crossover_pair", parent1 |-> p1, parent2 |-> p2,
                    out |-> CrossoverPair(p1, p2, Stream(rng, 2))]
        /\ UNCHANGED <<params, run, twin>>

\* _mutate on one of the objects of SampleHeap
CallMutateObject ==
    /\ call = NoCall
    /\ \E genome \in {1, 3}, m \in MutationRates, p \in Progressions,
          u1 \in FewDraws, u2 \in FewDraws, u3 \in {0, RAND_MOD \div 2, RAND_MOD - 1},
          u4 \in FewDraws, u5 \in FewDraws :
        /\ call' = [op |-> "mutate_object", heap |-> SampleHeap, genome |-> genome,
                    mutation_rate |-> m, progression |-> p,
                    out |-> MutateObject(SampleHeap, genome, m, p,
                                         <<u1, u2, u3, u4, u5>>, "low")]
        /\ UNCHANGED <<params, run, twin>>

CallPairing ==
    /\ call = NoCall
    /\ \E st \in StrategyNames, pool \in PairingPools,
       u1 \in FewDraws, u2 \in FewDraws, u3 \in FewDraws, u4 \in FewDraws :
        /\ call' = [op |-> "pairing", strategy |-> st, parents |-> pool.parents,
                    heap |-> pool.heap,
                    out |-> PairingStrategy(st, pool.parents, pool.heap, <<u1, u2, u3, u4>>)]
        /\ UNCHANGED <<params, run, twin>>

CallResolvePairingStrategy ==
    /\ call = NoCall
    /\ \E strategy \in StrategyArgs :
        /\ call' = [op |-> "resolve_pairing_strategy", strategy |-> strategy,
                    out |-> ResolvePairingStrategy(strategy)]
        /\ UNCHANGED <<params, run, twin>>

CallEvaluate ==
    /\ call = NoCall
    /\ \E genome \in EvalMelodies, chords \in Progressions :
        /\ call' = [op |-> "evaluate", genome |-> genome, progression |-> chords,
                    values |-> [func \in SeqRange(HEURISTIC_KEYS) |->
                                   HeuristicResult(func, genome, chords)],
                    out |-> EvaluateResult(genome, DEFAULT_WEIGHTS, chords)]
        /\ UNCHANGED <<params, run, twin>>

\* a weight mapping completed from the defaults: every key of the
\* configuration, with the given weight where one is given
CompleteWeights(weights) ==
    [func \in SeqRange(HEURISTIC_KEYS) |->
        IF func \in DOMAIN weights THEN weights[func] ELSE DEFAULT_WEIGHTS[func]]

\* evaluate of an evaluator constructed with a weight mapping (no mapping,
\* or one that gives some of the keys) and of an evaluator constructed with
\* that mapping completed from the defaults
CallEvaluateWeights ==
    /\ call = NoCall
    /\ \E genome \in EvalMelodies, chords \in Progressions, weights \in WeightSets \cup {<<>>} :
        /\ call' = [op |-> "evaluate_weights", genome |-> genome, progression |-> chords,
                    weights |-> weights,
                    out |-> EvaluateValue(genome, weights, chords),
                    completed |-> EvaluateValue(genome, CompleteWeights(weights), chords)]
        /\ UNCHANGED <<params, run, twin>>

OpNext ==
    \/ CallChordProgression \/ CallCrossover \/ CallMutate \/ CallPairing
    \/ CallResolvePairingStrategy \/ CallEvaluate \/ CallEvaluateWeights
    \/ CallMutateObject \/ CallCrossoverPair

OpSpec == OpInit /\ [][OpNext]_vars

(***************************************************************************)
(* Specification of the setup: the program builds the progression, the     *)
(* evaluator and the generator from the values it was given and then calls *)
(* generate (main.py, app.py).  params holds the values given, and from    *)
(* the construction of the generator on params.pairing_strategy is the     *)
(* attribute self.pairing_strategy.                                        *)
(***************************************************************************)

\* ChordProgression(chords=chords, ...) at engine state s
ConstructProgression(s, chords) ==
    LET progression == ChordProgression(chords)
    IN IF progression.error # "none"
       THEN [s EXCEPT !.pc = "raised", !.error = progression.error]
       ELSE [s EXCEPT !.pc = "progression"]

\* ConstructGenerator that falls back to the random strategy when the value
\* given cannot be resolved
ConstructGeneratorDefaulting(s, strategy) ==
    LET resolved == ResolvePairingStrategy(strategy)
    IN IF resolved.error # "none"
       THEN [engine |-> [s EXCEPT !.pc = "start", !.population = <<>>],
             pairing_strategy |-> "random"]
       ELSE [engine |-> [s EXCEPT !.pc = "start", !.population = <<>>],
             pairing_strategy |-> resolved.fn]

\* JazzFitnessEvaluator(progression, weights) and GeneticJazzMelodyGenerator(
\* ..., pairing_strategy=strategy) at engine state s: the engine after the
\* constructors and the attribute self.pairing_strategy
ConstructGenerator(s, strategy) ==
    LET resolved == ResolvePairingStrategy(strategy)
    IN IF resolved.error # "none"
       THEN [engine |-> [s EXCEPT !.pc = "raised", !.error = resolved.error],
             pairing_strategy |-> "none"]
       ELSE [engine |-> [s EXCEPT !.pc = "start", !.population = <<>>],
             pairing_strategy |-> resolved.fn]

\* the values given: a chord list one short, right or one long, and a
\* strategy value (a function of the caller would have to be run by the
\* engine and is left out)
SetupParamSets ==
    {[progression |-> [i \in 1..n |-> p[((i - 1) % NUM_BARS) + 1]],
      weights |-> CHOOSE w \in WeightSets : TRUE,
      population_size |-> 2, mutation_rate |-> 50, elite_size |-> e,
      pairing_strategy |-> "none", strategy |-> strategy, generations |-> 1] :
        p \in EngineProgressions, n \in (NUM_BARS - 1)..(NUM_BARS + 1), e \in 0..1,
        strategy \in {a \in StrategyArgs : a.kind = "callable" => a.value \in StrategyNames}}

SetupInit ==
    /\ params \in SetupParamSets
    /\ run = [InitialEngine(Seed(1)) EXCEPT !.pc = "new"]
    /\ twin = [InitialEngine(Seed(1)) EXCEPT !.pc = "new"]
    /\ call = NoCall

BuildProgression ==
    /\ run.pc = "new"
    /\ run' = ConstructProgression(run, params.progression)
    /\ twin' = ConstructProgression(twin, params.progression)
    /\ UNCHANGED <<params, call>>

BuildGenerator ==
    /\ run.pc = "progression"
    /\ run' = ConstructGenerator(run, params.strategy).engine
    /\ twin' = ConstructGenerator(twin, params.strategy).engine
    /\ params' = [params EXCEPT
                     !.pairing_strategy = ConstructGenerator(run, params.strategy).pairing_strategy]
    /\ UNCHANGED call

SetupNext == BuildProgression \/ BuildGenerator \/ Next

SetupSpec == SetupInit /\ [][SetupNext]_vars

(***************************************************************************)
(* Properties of the engine                                                *)
(***************************************************************************)
LegalMelody(pitches) ==
    /\ Len(pitches) = TOTAL_NOTES
    /\ \A i \in 1..Len(pitches) :
          pitches[i] = REST \/ (MIN_PITCH <= pitches[i] /\ pitches[i] <= MAX_PITCH)

\* C1: every melody of the population, after initialization and after every
\* generation, and the melody generate returns, has TOTAL_NOTES slots, each
\* of them REST or a pitch in MIN_PITCH..MAX_PITCH.
C1_MelodiesLegal ==
    /\ \A i \in 1..Len(run.population) : LegalMelody(run.heap[run.population[i]])
    /\ run.result # 0 => LegalMelody(run.heap[run.result])

\* C2 as stated: whatever elite_size is, the maximum fitness of the
\* population does not decrease when a generation replaces it.
C2_MaxFitnessNeverDecreases ==
    [][(run.pc = "breed" /\ run'.pc = "loop") => MaxFitness(run') >= MaxFitness(run)]_vars

\* C2 amended: when elite_size >= 1, the maximum fitness of the population
\* does not decrease when a generation replaces it.
C2_MaxFitnessNeverDecreasesWithElite ==
    [][(params.elite_size >= 1 /\ run.pc = "breed" /\ run'.pc = "loop")
          => MaxFitness(run') >= MaxFitness(run)]_vars

C2_Witness ==
    /\ params.elite_size >= 1
    /\ params.elite_size < params.population_size
    /\ params.mutation_rate = 100
    /\ run.pc = "loop"
    /\ run.gen = MaxGen

\* C3: the population holds exactly population_size melodies after
\* initialization and after every generation.
C3_PopulationSize ==
    run.pc # "start" => Len(run.population) = params.population_size

C3_Witness ==
    /\ run.pc = "loop"
    /\ run.gen >= 1
    /\ (params.population_size - params.elite_size) % 2 = 1
    /\ Len(run.population) = params.population_size

\* C4: two executions of generate with the same arguments and the same random
\* stream, whose objects lie at different addresses, stand at the same place
\* with the same draws consumed and hold slot-for-slot equal populations,
\* next generations and parent lists, and return equal melodies of equal
\* fitness.
C4_Deterministic ==
    /\ twin.pc = run.pc
    /\ twin.gen = run.gen
    /\ twin.rng = run.rng
    /\ twin.error = run.error
    /\ Pitches(twin, twin.population) = Pitches(run, run.population)
    /\ Pitches(twin, twin.new_population) = Pitches(run, run.new_population)
    /\ Pitches(twin, twin.parents) = Pitches(run, run.parents)
    /\ (twin.result = 0) = (run.result = 0)
    /\ run.result # 0 =>
          /\ twin.heap[twin.result] = run.heap[run.result]
          /\ FitnessOf(twin, twin.result) = FitnessOf(run, run.result)

C4_Witness ==
    /\ run.pc = "done"
    /\ run.gen = MaxGen
    /\ params.population_size = MaxPop
    /\ twin.result # run.result
    /\ \A i \in 1..Len(run.population) : twin.population[i] # run.population[i]

\* C5: the melody generate returns is a member of the final population and
\* no member of the final population is fitter.
C5_ReturnsFittest ==
    run.pc = "done" =>
        /\ run.result \in SeqRange(run.population)
        /\ \A i \in 1..Len(run.population) :
              FitnessOf(run, run.result) >= FitnessOf(run, run.population[i])

C5_Witness ==
    /\ run.pc = "done"
    /\ run.gen >= 1
    /\ run.result # run.population[1]
    /\ \E i \in 1..Len(run.population) :
          FitnessOf(run, run.population[i]) < FitnessOf(run, run.result)


(***************************************************************************)
(* Properties of the operations                                            *)
(***************************************************************************)
\* the slot indices (1-based) at which two slot lists of equal length differ
DiffSlots(p, q) == {i \in 1..Len(p) : p[i] # q[i]}

\* C6: the child of a crossover has TOTAL_NOTES slots and there is a cut
\* index, a multiple of NOTES_PER_BAR other than 0 and TOTAL_NOTES, such that
\* the child equals parent1 below the cut and parent2 from the cut on.
C6_CrossoverCutsAtBar ==
    call.op = "crossover" =>
        /\ Len(call.out.pitches) = TOTAL_NOTES
        /\ \E cut_index \in 1..(TOTAL_NOTES - 1) :
              /\ cut_index % NOTES_PER_BAR = 0
              /\ \A i \in 0..(TOTAL_NOTES - 1) :
                    call.out.pitches[i + 1] =
                        IF i < cut_index THEN call.parent1[i + 1] ELSE call.parent2[i + 1]

C6_Witness ==
    /\ call.op = "crossover"
    /\ call.parent1 = Pedal
    /\ call.parent2 = AllRests
    /\ call.out.pitches[TOTAL_NOTES - NOTES_PER_BAR] = MIN_PITCH
    /\ call.out.pitches[TOTAL_NOTES - NOTES_PER_BAR + 1] = REST

\* C7: with mutation_rate 0, _mutate returns its argument, slot for slot,
\* whatever is drawn.
C7_RateZeroNoMutation ==
    (call.op = "mutate" /\ call.mutation_rate = 0) =>
        /\ call.out.pitches = call.genome
        /\ ~call.out.copied

C7_Witness ==
    /\ call.op = "mutate"
    /\ call.mutation_rate = 0
    /\ call.genome = SmartMelody(1)
    /\ call.out.pitches = SmartMelody(1)

\* C8 as stated: with mutation_rate 1 (100 percent), the melody _mutate
\* returns differs from its argument in exactly one slot.
C8_RateOneChangesExactlyOneSlot ==
    (call.op = "mutate" /\ call.mutation_rate = 100) =>
        Cardinality(DiffSlots(call.out.pitches, call.genome)) = 1

\* C8 amended: with mutation_rate 1, _mutate always fires and writes exactly
\* one slot of a copy, so the melody it returns differs from its argument in
\* at most one slot, the slot written; the value written may be the value
\* the slot already held.
C8_RateOneWritesOneSlot ==
    (call.op = "mutate" /\ call.mutation_rate = 100) =>
        /\ call.out.copied
        /\ call.out.idx \in 0..(TOTAL_NOTES - 1)
        /\ Len(call.out.pitches) = Len(call.genome)
        /\ DiffSlots(call.out.pitches, call.genome) \subseteq {call.out.idx + 1}

C8_Witness ==
    /\ call.op = "mutate"
    /\ call.mutation_rate = 100
    /\ call.genome = Pedal
    /\ DiffSlots(call.out.pitches, call.genome) = {TOTAL_NOTES}

\* C9: constructing a ChordProgression from a list of any length other than
\* NUM_BARS raises ValueError and yields no progression; with NUM_BARS chords
\* it succeeds and holds the chords given.
C9_ProgressionLength ==
    call.op = "ChordProgression" =>
        /\ Len(call.chords) # NUM_BARS =>
              (call.out.error = "ValueError" /\ call.out.chords = <<>>)
        /\ Len(call.chords) = NUM_BARS =>
              (call.out.error = "none" /\ call.out.chords = call.chords)

C9_Witness ==
    /\ call.op = "ChordProgression"
    /\ Len(call.chords) = NUM_BARS + 1
    /\ call.out.error = "ValueError"

\* C10: each pairing strategy raises ValueError and returns no pair for a
\* list of fewer than two parents, and returns a pair of positions of the
\* list without error for a list of two or more.
C10_PairingUnderflow ==
    call.op = "pairing" =>
        /\ Len(call.parents) < 2 =>
              (call.out.error = "ValueError" /\ call.out.pos1 = -1 /\ call.out.pos2 = -1)
        /\ Len(call.parents) >= 2 =>
              /\ call.out.error = "none"
              /\ call.out.pos1 \in 0..(Len(call.parents) - 1)
              /\ call.out.pos2 \in 0..(Len(call.parents) - 1)

C10_Witness ==
    /\ call.op = "pairing"
    /\ call.strategy = "best_first_last"
    /\ Len(call.parents) = 1
    /\ call.out.error = "ValueError"

(***************************************************************************)
(* Properties of the breeding pool                                         *)
(***************************************************************************)

\* C11: every invocation of the pairing strategy by generate receives a list
\* of at least two parents: whenever the while loop of generate is about to
\* call the strategy, the parents list holds two or more melodies.
C11_PoolAtLeastTwo ==
    (run.pc = "breed" /\ Len(run.new_population) < params.population_size) =>
        Len(run.parents) >= 2

(***************************************************************************)
(* Properties of the pairing strategies                                    *)
(***************************************************************************)

\* the lists whose positions hold pairwise different objects
PairwiseDistinct(parents) ==
    \A i, j \in 1..Len(parents) : i # j => parents[i] # parents[j]

\* C12: on a list of n >= 2 pairwise different melodies best_first_last
\* returns, without error and without falling back to the random strategy, a
\* first parent at an index below max(1, n div 4) and a second parent at an
\* index of at least n - max(1, n div 4); for n = 8 the first index is below
\* 2 and the second at least 6.
C12_BestFirstLastQuartiles ==
    (/\ call.op = "pairing"
     /\ call.strategy = "best_first_last"
     /\ Len(call.parents) >= 2
     /\ PairwiseDistinct(call.parents)) =>
        LET n == Len(call.parents)
            quartile == IF n \div 4 >= 1 THEN n \div 4 ELSE 1
        IN /\ call.out.error = "none"
           /\ ~call.out.fallback
           /\ 0 <= call.out.pos1 /\ call.out.pos1 < quartile
           /\ n - quartile <= call.out.pos2 /\ call.out.pos2 < n
           /\ n = 8 => (call.out.pos1 < 2 /\ call.out.pos2 >= 6)

C12_Witness ==
    /\ call.op = "pairing"
    /\ call.strategy = "best_first_last"
    /\ Len(call.parents) = 8
    /\ PairwiseDistinct(call.parents)
    /\ call.out.pos1 = 1
    /\ call.out.pos2 = 6

\* C13: on a list of two or more parents similarity returns positions i and
\* j # i, without falling back to the random strategy, where j is the lowest
\* position other than i whose melody agrees with the melody at i in the
\* largest number of slots; dissimilarity returns the lowest position with
\* the smallest number.  When all melodies of the list are equal the pair
\* agrees in TOTAL_NOTES slots.
C13_SimilarityFirstBest ==
    (/\ call.op = "pairing"
     /\ call.strategy \in {"similarity", "dissimilarity"}
     /\ Len(call.parents) >= 2) =>
        LET n == Len(call.parents)
            melody(k) == call.heap[call.parents[k + 1]]
            i == call.out.pos1
            j == call.out.pos2
            matches(k) == Cardinality({x \in 1..TOTAL_NOTES : melody(k)[x] = melody(i)[x]})
            others == (0..(n - 1)) \ {i}
        IN /\ call.out.error = "none"
           /\ ~call.out.fallback
           /\ i \in 0..(n - 1)
           /\ j \in others
           /\ call.strategy = "similarity" =>
                 \A k \in others : matches(k) < matches(j) \/ (matches(k) = matches(j) /\ j <= k)
           /\ call.strategy = "dissimilarity" =>
                 \A k \in others : matches(k) > matches(j) \/ (matches(k) = matches(j) /\ j <= k)
           /\ (\A k \in 0..(n - 1) : melody(k) = melody(0)) => matches(j) = TOTAL_NOTES

\* two later candidates tie and the first of them is returned
C13_Witness ==
    /\ call.op = "pairing"
    /\ call.strategy = "similarity"
    /\ call.parents = <<3, 1, 2>>
    /\ call.heap[1] = call.heap[2]
    /\ call.out.pos1 = 0
    /\ call.out.pos2 = 1

(***************************************************************************)
(* Properties of the configuration                                         *)
(***************************************************************************)

\* the registered names a string spells when the case of its letters is
\* disregarded
SpelledNames(str) ==
    {e \in PAIRING_STRATEGIES :
        /\ Len(e.key) = Len(str)
        /\ \A i \in 1..Len(str) :
              \/ str[i] = e.key[i]
              \/ \E k \in 1..Len(ASCII_CASE) : str[i] = ASCII_CASE[k][1] /\ e.key[i] = ASCII_CASE[k][2]}

\* C14: resolve_pairing_strategy returns a callable as it is, returns the
\* function registered under a name in whatever case the name is spelled
\* ('Random' and 'BEST_FIRST_LAST' included), raises ValueError for every
\* string that spells none of the four names, raises TypeError for a value
\* that is neither a string nor callable, and returns no function when it
\* raises.
C14_ResolvePairingStrategy ==
    call.op = "resolve_pairing_strategy" =>
        LET strategy == call.strategy
            out == call.out
        IN /\ strategy.kind = "callable" => (out.error = "none" /\ out.fn = strategy.value)
           /\ (strategy.kind = "str" /\ SpelledNames(strategy.value) # {}) =>
                 (out.error = "none" /\ \E e \in SpelledNames(strategy.value) : out.fn = e.fn)
           /\ (strategy.kind = "str" /\ SpelledNames(strategy.value) = {}) =>
                 out.error = "ValueError"
           /\ strategy.kind \notin {"callable", "str"} => out.error = "TypeError"
           /\ out.error # "none" => out.fn = "none"
           /\ strategy = [kind |-> "str", value |-> <<"R", "a", "n", "d", "o", "m">>]
                 => out.fn = "random"
           /\ strategy = [kind |-> "str",
                          value |-> <<"B", "E", "S", "T", "_", "F", "I", "R", "S", "T", "_", "L", "A", "S", "T">>]
                 => out.fn = "best_first_last"

C14_Witness ==
    /\ call.op = "resolve_pairing_strategy"
    /\ call.strategy = [kind |-> "str",
                        value |-> <<"B", "E", "S", "T", "_", "F", "I", "R", "S", "T", "_", "L", "A", "S", "T">>]
    /\ call.out = [error |-> "none", fn |-> "best_first_last"]

\* C15: when the chord list has the wrong length or the strategy value is
\* neither callable nor a string spelling a registered name, the setup never
\* gets past the constructors: in every state of such an execution no
\* population exists, no object was made, no random draw was consumed and no
\* generation was run, the progression's constructor is the one that fails
\* for a wrong length, and the execution ends with ValueError or TypeError.
C15_ConfigurationErrorsFailFast ==
    LET bad_progression == Len(params.progression) # NUM_BARS
        bad_strategy ==
            \/ params.strategy.kind \notin {"callable", "str"}
            \/ params.strategy.kind = "str" /\ SpelledNames(params.strategy.value) = {}
    IN (bad_progression \/ bad_strategy) =>
          /\ run.pc \in {"new", "progression", "raised"}
          /\ run.population = <<>> /\ run.new_population = <<>> /\ run.parents = <<>>
          /\ run.heap = EmptyHeap
          /\ run.rng = Seed(1)
          /\ run.gen = 0 /\ run.result = 0
          /\ bad_progression => run.pc # "progression"
          /\ run.pc = "raised" => run.error \in {"ValueError", "TypeError"}
          /\ run.pc # "raised" => run.error = "none"

\* the generator's constructor has raised for a value that is no strategy
C15_Witness ==
    /\ Len(params.progression) = NUM_BARS
    /\ params.strategy.kind = "other"
    /\ run.pc = "raised"
    /\ run.error = "TypeError"
    /\ run.population = <<>>

(***************************************************************************)
(* Properties of the evaluator                                             *)
(***************************************************************************)

C17_GetBestGenomeFirstMax ==
    run.pc = "done" =>
        LET n == Len(run.population)
            best == {i \in 1..n : \A k \in 1..n :
                        FitnessOf(run, run.population[k]) <= FitnessOf(run, run.population[i])}
        IN /\ best # {}
           /\ run.result = run.population[Min(best)]

\* two different objects share the greatest fitness and the first is returned
C17_Witness ==
    /\ run.pc = "done"
    /\ \E i, j \in 1..Len(run.population) :
          /\ i < j
          /\ run.population[i] # run.population[j]
          /\ FitnessOf(run, run.population[i]) = MaxFitness(run)
          /\ FitnessOf(run, run.population[j]) = MaxFitness(run)
          /\ run.result = run.population[i]

\* C18: on a legal melody each of the nine heuristics returns a number and
\* raises nothing, and evaluate raises nothing and returns the sum of one
\* summand weight * value per key of the weight mapping; this holds for the
\* melody of rests and the melodies with one, two or three notes as well.
C18_EvaluateNeverFails ==
    (call.op = "evaluate" /\ LegalMelody(call.genome)) =>
        /\ \A func \in SeqRange(HEURISTIC_KEYS) :
              call.values[func].error = "none" /\ call.values[func].den > 0
        /\ call.out.error = "none"
        /\ Len(call.out.terms) = Len(HEURISTIC_KEYS)
        /\ \A i \in 1..Len(call.out.terms) :
              LET term == call.out.terms[i]
              IN /\ term.func = HEURISTIC_KEYS[i]
                 /\ term.weight = DEFAULT_WEIGHTS[term.func]
                 /\ term.num = call.values[term.func].num
                 /\ term.den = call.values[term.func].den

\* a melody with a single note has been evaluated
C18_Witness ==
    /\ call.op = "evaluate"
    /\ LegalMelody(call.genome)
    /\ Len(Sounded(call.genome)) = 1
    /\ call.out.error = "none"
    /\ call.values["melodic_motion"] = [error |-> "none", num |-> 1, den |-> 2]

\* C19: on a legal melody and a progression of chords of the factory each of
\* the nine heuristics returns a value v with 0 <= v <= 1.
C19_HeuristicsInUnitInterval ==
    (call.op = "evaluate" /\ LegalMelody(call.genome)) =>
        \A func \in SeqRange(HEURISTIC_KEYS) :
            call.values[func].error = "none" =>
                (0 <= call.values[func].num /\ call.values[func].num <= call.values[func].den)

\* C20: with k the number of slots that sound, _note_density is 0 for k = 0,
\* is 3/10 for k = TOTAL_NOTES, and follows the curve of density k / 64:
\* (density / 0.3) * 0.5 below 0.3, which is at most 0.5; 0.5 + (density -
\* 0.3) / 0.2 * 0.5 up to 0.5; 1 up to 0.75; max(0.3, 1 - (density - 0.75) *
\* 3) above.
C20_NoteDensityCurve ==
    (call.op = "evaluate" /\ LegalMelody(call.genome)) =>
        LET k == Cardinality({i \in 1..TOTAL_NOTES : call.genome[i] # REST})
            v == call.values["note_density"]
        IN /\ v.error = "none"
           /\ k = 0 => v.num = 0
           /\ k = TOTAL_NOTES => 10 * v.num = 3 * v.den
           /\ 10 * k < 3 * 64 => (192 * v.num = 5 * k * v.den /\ 2 * v.num <= v.den)
           /\ (10 * k >= 3 * 64 /\ 2 * k <= 64) => 128 * v.num = (5 * k - 32) * v.den
           /\ (2 * k > 64 /\ 4 * k <= 3 * 64) => v.num = v.den
           /\ 4 * k > 3 * 64 =>
                 /\ 640 * v.num = (IF 2080 - 30 * k > 192 THEN 2080 - 30 * k ELSE 192) * v.den
                 /\ 10 * v.num >= 3 * v.den
                 /\ v.num < v.den

\* every slot sounds and the value is the floor 0.3
C20_Witness ==
    /\ call.op = "evaluate"
    /\ call.genome = Pedal
    /\ 10 * call.values["note_density"].num = 3 * call.values["note_density"].den

\* C21: the evaluator constructed with a weight mapping that gives only some
\* of the keys evaluates every legal melody to the value the evaluator
\* constructed with that mapping completed from the default weights gives.
C21_PartialWeightsUseDefaults ==
    (call.op = "evaluate_weights" /\ LegalMelody(call.genome)) =>
        call.out = call.completed

\* C22: generate terminates.  Every step of generate lowers a natural-valued
\* rank, so no run has infinitely many steps; the loop variable goes up by
\* one with every replaced population and generate returns only when it
\* equals `generations` (no early stop, `generations` = 0 included); in a
\* generation the while loop begins at most
\* ceil((population_size - elite_size) / 2) passes; and what generate returns
\* is a melody of the last population.
C22_GenerateTerminates ==
    [][LET bound == (params.population_size - params.elite_size + 1) \div 2
           width == bound + 2
           Rank(s) ==
               CASE s.pc = "start" -> 2 + params.generations * width
                 [] s.pc = "loop" -> 1 + (params.generations - s.gen) * width
                 [] s.pc = "breed" ->
                      2 + (params.generations - s.gen - 1) * width + (bound - s.pairings)
                 [] OTHER -> 0
       IN /\ Rank(run') < Rank(run)
          /\ Rank(run') >= 0
          /\ run'.pairings <= bound
          /\ run'.gen = (IF run.pc = "breed" /\ run'.pc = "loop" THEN run.gen + 1 ELSE run.gen)
          /\ run'.pc = "done" =>
                /\ run.pc = "loop"
                /\ run.gen = params.generations
                /\ run'.result \in SeqRange(run.population)
                /\ Len(run'.heap[run'.result]) = TOTAL_NOTES
          /\ run'.pc = "raised" => (run.pc = "breed" /\ run'.error = "ValueError")
      ]_vars

\* generate returned after MaxGen generations in which the while loop made
\* as many passes as the bound allows
C22_Witness ==
    /\ run.pc = "done"
    /\ run.gen = MaxGen
    /\ params.generations = MaxGen
    /\ params.population_size = MaxPop
    /\ params.elite_size = 0
    /\ run.pairings = (MaxPop + 1) \div 2

\* C23: whenever generate is about to call the pairing strategy, the list it
\* passes has exactly population_size entries, every entry is an object of
\* the current population (none of the next one), and the entries stand in
\* non-increasing order of the fitness of the current generation.
C23_PairingGetsSortedPool ==
    (run.pc = "breed" /\ Len(run.new_population) < params.population_size) =>
        /\ Len(run.parents) = params.population_size
        /\ \A i \in 1..Len(run.parents) :
              /\ run.parents[i] \in SeqRange(run.population)
              /\ run.parents[i] \notin SeqRange(run.new_population)
        /\ \A i \in 1..(Len(run.parents) - 1) :
              FitnessOf(run, run.parents[i]) >= FitnessOf(run, run.parents[i + 1])

\* the strategy is about to be called a second time in a generation, with a
\* list of three entries of more than one fitness
C23_Witness ==
    /\ run.pc = "breed"
    /\ run.pairings = 1
    /\ Len(run.new_population) < params.population_size
    /\ Len(run.parents) = MaxPop
    /\ FitnessOf(run, run.parents[1]) > FitnessOf(run, run.parents[MaxPop])

\* C24: when a generation ends, the first min(elite_size, population_size)
\* entries of the new population are slot for slot the fittest melodies of
\* the previous population: entry i equals the melody of the previous
\* population that has exactly i - 1 melodies before it in the order
\* "fitter first, equally fit ones in population order"; the entries are
\* objects of their own, so neither crossover nor mutation made them.
C24_ElitesCopiedVerbatim ==
    [][(run.pc = "breed" /\ run'.pc = "loop") =>
          LET n == Len(run.population)
              count == IF params.elite_size <= n THEN params.elite_size ELSE n
              Before(j) == {m \in 1..n :
                  \/ FitnessOf(run, run.population[m]) > FitnessOf(run, run.population[j])
                  \/ /\ FitnessOf(run, run.population[m]) = FitnessOf(run, run.population[j])
                     /\ m < j}
          IN /\ Len(run'.population) >= count
             /\ \A i \in 1..count :
                   \E j \in 1..n :
                      /\ Cardinality(Before(j)) = i - 1
                      /\ run'.heap[run'.population[i]] = run.heap[run.population[j]]
                      /\ run'.population[i] \notin SeqRange(run.population)
                      /\ run.heap[run.population[j]] = run'.heap[run.population[j]]
                            \/ run'.heap[run.population[j]] = Free
      ]_vars

\* a generation ended with two elites of different slots at the head of the
\* new population
C24_Witness ==
    /\ run.pc = "loop"
    /\ run.gen >= 1
    /\ params.elite_size = 2
    /\ params.population_size = MaxPop
    /\ params.mutation_rate = 100
    /\ run.heap[run.population[1]] # run.heap[run.population[2]]

\* C25: when the mutation fires, _mutate returns a new object: its slot
\* list has TOTAL_NOTES slots and differs from the argument's in at most
\* one slot, and the argument and every other object hold what they held.
C25_MutateWritesOneSlotOfACopy ==
    (call.op = "mutate_object" /\ call.out.copied) =>
        /\ call.out.addr # call.genome
        /\ call.heap[call.out.addr] = Free
        /\ Len(call.out.heap[call.out.addr]) = TOTAL_NOTES
        /\ Cardinality(DiffSlots(call.out.heap[call.out.addr], call.heap[call.genome])) <= 1
        /\ \A a \in AddrPool \ {call.out.addr} : call.out.heap[a] = call.heap[a]

\* a mutation that fired and changed the last slot of the copy
C25_Witness ==
    /\ call.op = "mutate_object"
    /\ call.out.copied
    /\ call.mutation_rate = 50
    /\ DiffSlots(call.out.heap[call.out.addr], call.heap[call.genome]) = {TOTAL_NOTES}

\* C26: after a chord-tone snap of slot idx, and after a rest toggle of a
\* slot idx that held a rest, the slot holds a pitch p that is no rest and
\* is a chord tone of the chord of bar idx div NOTES_PER_BAR: the pitch
\* class of p, taken relative to the root, is one of the chord's chord
\* tones, which is what _is_chord_tone tests.
C26_SnapWritesChordTone ==
    (/\ call.op = "mutate"
     /\ \/ call.out.variant = "snap"
        \/ call.out.variant = "toggle" /\ call.genome[call.out.idx + 1] = REST) =>
        LET p == call.out.pitches[call.out.idx + 1]
            chord == call.progression[(call.out.idx \div NOTES_PER_BAR) + 1]
        IN /\ p # REST
           /\ p >= 0
           /\ \E t \in SeqRange(chord.chord_tones), k \in 0..1 :
                 (p % 12) - chord.root = t - 12 * k
           /\ IsChordTone(p, chord)

\* a rest toggled into a chord tone
C26_Witness ==
    /\ call.op = "mutate"
    /\ call.out.variant = "toggle"
    /\ call.genome[call.out.idx + 1] = REST
    /\ call.out.pitches[call.out.idx + 1] # REST

\* C27: the two children of one parent pair are cut at the same bar boundary
\* with the roles of the parents swapped: at every slot one child holds the
\* slot of the first parent and the other child the slot of the second.
C27_ChildrenComplementary ==
    call.op = "crossover_pair" =>
        \A i \in 1..TOTAL_NOTES :
            \/ call.out.child1[i] = call.parent1[i] /\ call.out.child2[i] = call.parent2[i]
            \/ call.out.child1[i] = call.parent2[i] /\ call.out.child2[i] = call.parent1[i]

\* C27 amended: the two children of one parent pair come from two calls of
\* _crossover with the roles of the parents swapped, and each call draws a
\* bar boundary of its own: the first child is the first parent up to its
\* cut and the second parent from there, the second child the second parent
\* up to its cut and the first parent from there.  Before the lower cut and
\* from the higher cut on, one child holds the slot of the first parent and
\* the other the slot of the second; between the cuts both children hold the
\* slot of the same parent.
C27_ChildrenSwapRoles ==
    call.op = "crossover_pair" =>
        \E cut1, cut2 \in {b * NOTES_PER_BAR : b \in 1..(NUM_BARS - 1)} :
            /\ cut1 = call.out.cut_index1
            /\ cut2 = call.out.cut_index2
            /\ \A i \in 0..(TOTAL_NOTES - 1) :
                  /\ call.out.child1[i + 1] =
                        IF i < cut1 THEN call.parent1[i + 1] ELSE call.parent2[i + 1]
                  /\ call.out.child2[i + 1] =
                        IF i < cut2 THEN call.parent2[i + 1] ELSE call.parent1[i + 1]
                  /\ (cut1 <= i /\ i < cut2) =>
                        call.out.child1[i + 1] = call.out.child2[i + 1]
                  /\ (cut2 <= i /\ i < cut1) =>
                        call.out.child1[i + 1] = call.out.child2[i + 1]

\* two children of different parents cut at different bars
C27_Witness ==
    /\ call.op = "crossover_pair"
    /\ call.parent1 = Pedal
    /\ call.parent2 = AllRests
    /\ call.out.cut_index1 < call.out.cut_index2

\* C28: with best_first_last, of every pair handed to crossover one parent
\* is an object found at a top-quartile position and the other an object
\* found at a bottom-quartile position of the sorted breeding pool.
C28_BestFirstLastTopWithBottom ==
    (params.pairing_strategy = "best_first_last" /\ run.pc = "breed" /\ run.pair # <<>>) =>
        LET n == Len(run.parents)
            count == MaxOf(1, n \div 4)
            Top == {run.parents[i] : i \in 1..count}
            Bottom == {run.parents[i] : i \in (n - count + 1)..n}
            parent1 == run.parents[run.pair[1] + 1]
            parent2 == run.parents[run.pair[2] + 1]
        IN \/ parent1 \in Top /\ parent2 \in Bottom
           \/ parent2 \in Top /\ parent1 \in Bottom

\* C28 amended: with best_first_last, a pair handed to crossover stands at
\* two different positions of the sorted breeding pool, and either its
\* first parent stands at a top-quartile position and its second, another
\* object, at a bottom-quartile position, or the pool holds one and the
\* same object at a top-quartile and at a bottom-quartile position (the case
\* in which the strategy resamples with random_pairing from the whole pool).
C28_BestFirstLastOrResampled ==
    (params.pairing_strategy = "best_first_last" /\ run.pc = "breed" /\ run.pair # <<>>) =>
        LET n == Len(run.parents)
            count == MaxOf(1, n \div 4)
            TopPositions == 0..(count - 1)
            BottomPositions == (n - count)..(n - 1)
        IN /\ run.pair[1] \in 0..(n - 1)
           /\ run.pair[2] \in 0..(n - 1)
           /\ run.pair[1] # run.pair[2]
           /\ \/ /\ run.pair[1] \in TopPositions
                 /\ run.pair[2] \in BottomPositions
                 /\ run.parents[run.pair[1] + 1] # run.parents[run.pair[2] + 1]
              \/ \E i \in TopPositions, j \in BottomPositions :
                    run.parents[i + 1] = run.parents[j + 1]

\* a resampled pair with a parent that stands only in the middle of a pool of
\* three
C28_Witness ==
    /\ params.pairing_strategy = "best_first_last"
    /\ run.pc = "breed"
    /\ Len(run.parents) = MaxPop
    /\ run.pair # <<>>
    /\ 1 \in {run.pair[1], run.pair[2]}
    /\ run.parents[2] \notin {run.parents[1], run.parents[MaxPop]}

\* C29: while a generation is built, the population and the slots of its
\* melodies stay as they are; the elites and children of the next
\* generation are objects of their own, different from each other and from
\* every member of the population; and the population is replaced in one
\* step, when the next generation is complete, by melodies whose slots are
\* those the elites and children had.
C29_PopulationReadOnlyWhileBreeding ==
    [][(run.pc \in {"loop", "breed"} /\ run'.pc # "done") =>
          IF run'.pc = "loop"
          THEN /\ Len(run.new_population) >= params.population_size
               /\ Len(run'.population) = params.population_size
               /\ \A i \in 1..Len(run'.population) :
                     /\ run'.population[i] = run.new_population[i]
                     /\ run'.heap[run'.population[i]] = run.heap[run.new_population[i]]
          ELSE /\ run'.population = run.population
               /\ \A i \in 1..Len(run.population) :
                     run'.heap[run.population[i]] = run.heap[run.population[i]]
               /\ \A i \in 1..Len(run'.new_population) :
                     /\ run'.new_population[i] \notin SeqRange(run.population)
                     /\ run'.heap[run'.new_population[i]] # Free
                     /\ \A j \in 1..Len(run'.new_population) :
                           i # j => run'.new_population[i] # run'.new_population[j]
                     /\ i <= Len(run.new_population) =>
                           /\ run'.new_population[i] = run.new_population[i]
                           /\ run'.heap[run'.new_population[i]] = run.heap[run.new_population[i]]
      ]_vars

\* a next generation under construction that holds an elite and two mutated
\* children
C29_Witness ==
    /\ run.pc = "breed"
    /\ params.elite_size = 1
    /\ params.mutation_rate = 100
    /\ Len(run.new_population) = 3
    /\ run.gen = 1

====
